---- MODULE Spec2Model ----
(***************************************************************************)
(* A model of gemini-text-editor: the IndexedDB project store              *)
(* (storageService), the two Gemini wrappers (geminiService), the          *)
(* standalone App, the routed Dashboard / ProjectEditor pages and the      *)
(* fabric EditorCanvas.                                                    *)
(*                                                                         *)
(* Every `await` of the source is a step boundary: the code between two    *)
(* awaits is one action.  A running async function is a record in `calls`  *)
(* (storage calls) or `tasks` (functions of the pages): its operation, its *)
(* position, its locals and its result.                                    *)
(*                                                                         *)
(* Specifications:                                                         *)
(*   SpecStore    the store under concurrent callers                       *)
(*   SpecService  the two wrappers, one call at a time                     *)
(*   SpecEditor   ProjectEditor and EditorCanvas opened on a stored        *)
(*                project, from mount until the user has left the page     *)
(*   SpecApp      the standalone App and EditorCanvas                      *)
(*   Spec         SpecEditor or SpecApp: the pages that call the wrappers  *)
(*   SpecRouted   Dashboard, the router and the load of ProjectEditor      *)
(***************************************************************************)
EXTENDS Integers, Sequences, FiniteSets, Bags, TLC

VARIABLES
    now,        \* the value Date.now() returns
    store,      \* object store 'projects': key (id) -> Project
    uuidsUsed,  \* the ids uuidv4() has returned so far
    calls,      \* the storage calls suspended at an await (a bag of records)
    observed,   \* what the step just taken returns to its caller
    created,    \* history: the arguments of each createProject whose record
                \* no updateProject put and no deleteProject has hit since
    quiet,      \* history: ids deleted while no other call was in flight
    aistudio,   \* window.aistudio: what the host page provides
    svc,        \* the geminiService call in flight
    fabric,     \* window.fabric: whether the fabric script was loaded
    route,      \* the path the router shows
    freshIds,   \* history: the ids handleCreateProject navigated to
    deletedIds, \* history: the ids a deleteProject of the Dashboard ran on
    ed,         \* ProjectEditor: its state, when mounted
    dash,       \* Dashboard: its state, when mounted
    app,        \* the standalone App: its state, when it is the entry
    tasks,      \* the async functions of the pages that are suspended (a bag)
    cv,         \* EditorCanvas: its state, when mounted
    loads,      \* the image loads of EditorCanvas that are pending (a bag)
    geo,        \* the geometry onload gave the objects of one block
    fab         \* the fabric canvases created, the refs and the deferred
                \* callbacks of the EditorCanvas instances

vars == <<now, store, uuidsUsed, calls, observed, created, quiet, aistudio, svc,
          fabric, route, freshIds, deletedIds, ed, dash, app, tasks, cv, loads,
          geo, fab>>
\* what only the specifications of the canvas alone use
canvasSide == <<geo, fab>>
storeSide == <<store, uuidsUsed, calls, created, quiet>>
uiSide == <<fabric, route, freshIds, deletedIds, ed, dash, app, tasks, cv, loads,
            canvasSide>>
outsideStore == <<aistudio, svc, uiSide>>
\* what the pages leave alone
benchSide == <<calls, observed, created, quiet, svc, canvasSide>>

----------------------------------------------------------------------------
(* Bounds *)

MaxCalls == 2       \* storage calls suspended at once
MaxNow == 1         \* last tick of the clock
MaxTasks == 2       \* async functions of the pages suspended at once
MaxLoads == 2       \* image loads of the canvas pending at once

----------------------------------------------------------------------------
(* Values *)

Null == "null"
Undefined == "undefined"

\* The ids uuidv4() can return, in key order.
UuidOrder == <<"uuid-a", "uuid-b">>
Uuids == {UuidOrder[i] : i \in DOMAIN UuidOrder}
KeyRank(id) == CHOOSE i \in DOMAIN UuidOrder : UuidOrder[i] = id

Names == {"photo"}
Images == {"data:imgA"}
Cleaned == {"data:image/png;base64,X"}

\* A text block as the detection response carries it (responseSchema).
RawBlock(text, box) ==
    [originalText |-> text, box_2d |-> box, textColor |-> "#000000",
     backgroundColor |-> "#FFFFFF", fontFamily |-> "serif", fontWeight |-> "bold"]

RawHi == RawBlock("Hi", <<100, 100, 200, 300>>)
\* a response block that already carries an id and a currentText
RawYo == [f \in DOMAIN RawHi \cup {"id", "currentText"} |->
            IF f = "id" THEN "block-0-0"
            ELSE IF f = "currentText" THEN "stale"
            ELSE IF f = "originalText" THEN "Yo"
            ELSE IF f = "box_2d" THEN <<500, 0, 600, 1000>>
            ELSE RawHi[f]]

\* an id made of the time alone
BlockIdWithoutIndex(index, t) == "block-" \o ToString(t)

\* `block-${index}-${Date.now()}`
BlockId(index, t) == "block-" \o ToString(index) \o "-" \o ToString(t)

\* { ...block, id, currentText: block.originalText }: a DetectedTextBlock
ProcessedBlock(block, index, t) ==
    [f \in DOMAIN block \cup {"id", "currentText"} |->
        IF f = "id" THEN BlockId(index, t)
        ELSE IF f = "currentText" THEN block.originalText
        ELSE block[f]]

BlockLists == {<<>>, <<ProcessedBlock(RawHi, 0, 0)>>}

\* The Partial<Project> values callers hand to updateProject.
UpdateSets ==
    {[blocks |-> b] : b \in BlockLists \ {<<>>}}
    \cup {[processedImage |-> p] : p \in Cleaned}

\* What db.get resolves to for a key that is not stored.
NoProject == [id |-> Undefined]

NoArgs == [none |-> TRUE]
NoRet == [kind |-> "none"]
Nothing == [op |-> "none"]
NoCall == [fn |-> "none"]
NoEditor == [mounted |-> FALSE]
NoDashboard == [mounted |-> FALSE]
NoApp == [mounted |-> FALSE]
NoCanvas == [mounted |-> FALSE]
NoLayout == [none |-> TRUE]
NoFabric == [none |-> TRUE]

----------------------------------------------------------------------------
(* storageService: the object store *)

\* db.get('projects', id)
DbGet(s, id) == IF id \in DOMAIN s THEN s[id] ELSE NoProject

\* db.put('projects', project): keyPath 'id', insert or replace
DbPut(s, project) ==
    [k \in DOMAIN s \cup {project.id} |-> IF k = project.id THEN project ELSE s[k]]

\* a delete that empties the store
DbClear(s, id) == [k \in {} |-> NoProject]

\* db.delete('projects', id)
DbDelete(s, id) == [k \in DOMAIN s \ {id} |-> s[k]]

\* Position of a record in the index 'by-date': by updatedAt, then by key.
Before(s, a, b) ==
    \/ s[a].updatedAt < s[b].updatedAt
    \/ s[a].updatedAt = s[b].updatedAt /\ KeyRank(a) < KeyRank(b)

RECURSIVE IndexOrder(_, _)
IndexOrder(s, keys) ==
    IF keys = {} THEN <<>>
    ELSE LET first == CHOOSE a \in keys : \A b \in keys \ {a} : Before(s, a, b)
         IN <<s[first]>> \o IndexOrder(s, keys \ {first})

\* db.getAllFromIndex('projects', 'by-date')
DbGetAllFromIndex(s) == IndexOrder(s, DOMAIN s)

\* an id generator that can repeat an id it gave before
uuidv4Repeating == Uuids

\* uuidv4(): an id it has not returned before
uuidv4 == Uuids \ uuidsUsed

\* the Project record createProject builds
NewProject(id, name, originalImage, blocks, t) ==
    [id |-> id, name |-> name, createdAt |-> t, updatedAt |-> t,
     originalImage |-> originalImage, processedImage |-> Null, blocks |-> blocks]

\* { ...project, ...updates, updatedAt: Date.now() }: a later key wins
UpdatedProject(project, updates, t) ==
    [f \in DOMAIN project \cup DOMAIN updates \cup {"updatedAt"} |->
        IF f = "updatedAt" THEN t
        ELSE IF f \in DOMAIN updates THEN updates[f]
        ELSE project[f]]

Pending == BagToSet(calls)
Quiescent == calls = EmptyBag
CanSuspend == BagCardinality(calls) < MaxCalls
Suspend(p) == calls (+) SetToBag({p})
Resume(p) == calls (-) SetToBag({p})

----------------------------------------------------------------------------
(* The store under concurrent callers.  A call suspended between two       *)
(* requests is a record in `calls`; a call of one request is one step.     *)
(* A step that returns to its caller leaves what it returned in            *)
(* `observed`, and the caller takes it before anything else happens.       *)

\* The ids a caller can pass: the ids createProject has returned, and a
\* string that is the key of no project.
NoSuchId == "no-such-id"
ReturnedIds == uuidsUsed \ {p.id : p \in {q \in Pending : q.op = "createProject"}}
CallerIds == ReturnedIds \cup {NoSuchId}

CreateArgs ==
    {[name |-> n, originalImage |-> i, blocks |-> b] :
        n \in Names, i \in Images, b \in BlockLists}

\* createProject, lines 183-193: the id and the record
CreateProjectBuild ==
    /\ observed = Nothing /\ CanSuspend
    /\ \E a \in CreateArgs, id \in uuidv4 :
        /\ uuidsUsed' = uuidsUsed \cup {id}
        /\ calls' = Suspend([op |-> "createProject", id |-> id, args |-> a,
                project |-> NewProject(id, a.name, a.originalImage, a.blocks, now)])
    /\ UNCHANGED <<now, store, observed, created, quiet>>
    /\ UNCHANGED outsideStore

\* createProject, lines 194-195: the put, and the id it returns
CreateProjectPut(p) ==
    /\ observed = Nothing /\ p.op = "createProject"
    /\ store' = DbPut(store, p.project)
    /\ calls' = Resume(p)
    /\ observed' = [op |-> "createProject", id |-> p.id]
    /\ created' = created \cup {[id |-> p.id, args |-> p.args]}
    /\ UNCHANGED <<now, uuidsUsed, quiet>>
    /\ UNCHANGED outsideStore

\* getProject
GetProject ==
    /\ observed = Nothing
    /\ \E id \in CallerIds :
        observed' = [op |-> "getProject", id |-> id, project |-> DbGet(store, id)]
    /\ UNCHANGED <<now, store, uuidsUsed, calls, created, quiet>>
    /\ UNCHANGED outsideStore

\* getAllProjects
GetAllProjects ==
    /\ observed = Nothing
    /\ observed' = [op |-> "getAllProjects", list |-> DbGetAllFromIndex(store)]
    /\ UNCHANGED <<now, store, uuidsUsed, calls, created, quiet>>
    /\ UNCHANGED outsideStore

\* updateProject, lines 210-217: the read, the not-found throw, the merge
UpdateProjectRead ==
    /\ observed = Nothing /\ CanSuspend
    /\ \E id \in CallerIds, u \in UpdateSets :
        LET project == DbGet(store, id) IN
        IF project = NoProject
        THEN /\ observed' = [op |-> "updateProject", id |-> id, error |-> "not found"]
             /\ UNCHANGED calls
        ELSE /\ observed' = Nothing
             /\ calls' = Suspend([op |-> "updateProject", id |-> id, args |-> u,
                                  project |-> project, overlap |-> {}])
    /\ UNCHANGED <<now, store, uuidsUsed, created, quiet>>
    /\ UNCHANGED outsideStore

\* an update that merges into the record as stored at the time of the put
UpdatePutValueMergedAtPut(p) == UpdatedProject(DbGet(store, p.id), p.args, now)

\* updateProject, lines 213-218: the record the put writes
UpdatePutValue(p) == UpdatedProject(p.project, p.args, now)

\* history: a suspended updateProject on the same id was overtaken by p's put
Overtaken(q, p) ==
    IF q.op = "updateProject" /\ q.id = p.id
    THEN [q EXCEPT !.overlap = @ \cup {p.args}] ELSE q

\* updateProject, line 218: the put
UpdateProjectPut(p) ==
    /\ observed = Nothing /\ p.op = "updateProject"
    /\ store' = DbPut(store, UpdatePutValue(p))
    /\ calls' = LET rest == Resume(p) IN BagOfAll(LAMBDA q : Overtaken(q, p), rest)
    /\ observed' = [op |-> "updateProject", id |-> p.id, snapshot |-> p.project,
                     updates |-> p.args, overlap |-> p.overlap]
    /\ created' = {r \in created : r.id # p.id}
    /\ UNCHANGED <<now, uuidsUsed, quiet>>
    /\ UNCHANGED outsideStore

\* deleteProject
DeleteProject ==
    /\ observed = Nothing
    /\ \E id \in CallerIds :
        /\ store' = DbDelete(store, id)
        /\ observed' = [op |-> "deleteProject", id |-> id, before |-> store]
        /\ created' = {r \in created : r.id # id}
        /\ quiet' = IF Quiescent THEN quiet \cup {id} ELSE quiet
    /\ UNCHANGED <<now, uuidsUsed, calls>>
    /\ UNCHANGED outsideStore

\* the caller takes what the call returned
Return ==
    /\ observed # Nothing
    /\ observed' = Nothing
    /\ UNCHANGED <<now, store, uuidsUsed, calls, created, quiet>>
    /\ UNCHANGED outsideStore

\* Date.now() advances
Tick ==
    /\ observed = Nothing
    /\ now < MaxNow
    /\ now' = now + 1
    /\ UNCHANGED <<store, uuidsUsed, calls, observed, created, quiet>>
    /\ UNCHANGED outsideStore

InitStore ==
    /\ now = 0
    /\ store = [k \in {} |-> NoProject]
    /\ uuidsUsed = {}
    /\ calls = EmptyBag
    /\ observed = Nothing
    /\ created = {} /\ quiet = {}
    /\ aistudio = "none" /\ svc = NoCall
    /\ fabric = FALSE /\ route = "/" /\ freshIds = {} /\ deletedIds = {}
    /\ ed = NoEditor /\ dash = NoDashboard /\ app = NoApp
    /\ tasks = EmptyBag /\ cv = NoCanvas /\ loads = EmptyBag
    /\ geo = NoLayout /\ fab = NoFabric

NextStore ==
    \/ GetProject
    \/ GetAllProjects
    \/ DeleteProject
    \/ CreateProjectBuild
    \/ UpdateProjectRead
    \/ \E p \in Pending : CreateProjectPut(p)
    \/ \E p \in Pending : UpdateProjectPut(p)
    \/ Return

SpecStore == InitStore /\ [][NextStore]_vars

----------------------------------------------------------------------------
(* Claims about the store *)

\* The record a createProject with arguments r.args under id r.id stored.
AsCreated(project, r) ==
    /\ project # NoProject
    /\ project.id = r.id
    /\ project.name = r.args.name
    /\ project.originalImage = r.args.originalImage
    /\ project.blocks = r.args.blocks
    /\ project.processedImage = Null

\* C1: after createProject(name, originalImage, blocks) returned id, and for
\* as long as no updateProject put and no deleteProject hit that id, the
\* store holds, and getProject(id) returns, a record with that id, name,
\* originalImage and blocks and processedImage null; and the id a
\* createProject is about to put is the key of no stored project and of no
\* other createProject in flight, so the put inserts and never replaces.
C1_ProjectRoundTrip ==
    /\ \A r \in created : AsCreated(DbGet(store, r.id), r)
    /\ observed.op = "getProject" =>
            \A r \in created : r.id = observed.id => AsCreated(observed.project, r)
    /\ \A p \in Pending : p.op = "createProject" =>
            /\ p.id \notin DOMAIN store
            /\ CopiesIn(p, calls) = 1
            /\ \A q \in Pending \ {p} : q.op = "createProject" => q.id # p.id

\* C1 witness: getProject returned a project created with a non-empty block
\* list while a second project is stored.
C1_Witness ==
    /\ observed.op = "getProject"
    /\ \E r \in created : r.id = observed.id /\ r.args.blocks # <<>>
                            /\ AsCreated(observed.project, r)
    /\ Cardinality(DOMAIN store) = 2

\* C2: when another updateProject put on the same id ran between a call's
\* read and its put, the call's put replaces the whole record by its own
\* merge of the record it read: every field it does not update is as it
\* read it, so what the other call changed is gone (last writer wins).
C2_LastWriterWins ==
    (observed.op = "updateProject" /\ "overlap" \in DOMAIN observed
        /\ observed.overlap # {}) =>
    /\ observed.id \in DOMAIN store
    /\ \A f \in DOMAIN store[observed.id] \ {"updatedAt"} :
            store[observed.id][f] =
                IF f \in DOMAIN observed.updates THEN observed.updates[f]
                ELSE observed.snapshot[f]

\* C2 witness: the put of an overlapped call has just erased a field the
\* other call had changed.
C2_Witness ==
    /\ observed.op = "updateProject" /\ "overlap" \in DOMAIN observed
    /\ \E u \in observed.overlap : \E f \in DOMAIN u \ DOMAIN observed.updates :
            /\ u[f] # observed.snapshot[f]
            /\ store[observed.id][f] = observed.snapshot[f]

\* C3: once deleteProject(id) ran with no other call in flight, the store
\* does not hold id, getProject(id) returns undefined and getAllProjects
\* returns no record with that id; a deleteProject leaves every other
\* stored project as it was, and on an id that is not stored it changes
\* nothing and returns normally.
C3_DeleteRemovesOnlyThatProject ==
    /\ \A id \in quiet : id \notin DOMAIN store
    /\ (observed.op = "getProject" /\ observed.id \in quiet) =>
            observed.project = NoProject
    /\ observed.op = "getAllProjects" =>
            \A i \in DOMAIN observed.list : observed.list[i].id \notin quiet
    /\ observed.op = "deleteProject" =>
            /\ "error" \notin DOMAIN observed
            /\ DOMAIN store = DOMAIN observed.before \ {observed.id}
            /\ \A k \in DOMAIN store : store[k] = observed.before[k]
            /\ observed.id \notin DOMAIN observed.before => store = observed.before

\* C3 witness: getProject on a deleted id returned undefined while another
\* project is still stored.
C3_Witness ==
    /\ observed.op = "getProject" /\ observed.id \in quiet
    /\ observed.project = NoProject
    /\ DOMAIN store # {}

----------------------------------------------------------------------------
(* geminiService: the two wrappers around generateContent *)

Prefix == "data:image/png;base64,"

Resolved(v) == [kind |-> "resolved", value |-> v]
Rejected(e) == [kind |-> "rejected", error |-> e]

\* What window.aistudio provides.
Studios == {"none", "hasSelectedApiKey", "hasSelectedApiKey,openSelectKey"}

\* The text of a detection response, as JSON.parse sees it.
AnalyzeResponses ==
    {[kind |-> "error"], [kind |-> "empty"], [kind |-> "invalid"],
     [kind |-> "json", shape |-> "null"],
     [kind |-> "json", shape |-> "object", textBlocks |-> "absent"],
     [kind |-> "json", shape |-> "object", textBlocks |-> "notArray"]}
    \cup {[kind |-> "json", shape |-> "object", textBlocks |-> "array", items |-> b] :
            b \in {<<>>, <<RawHi>>, <<RawHi, RawYo>>}}

TextPart == [text |-> "Here is the image"]
InlinePart(d) == [inlineData |-> [mimeType |-> "image/png", data |-> d]]

\* The outcome of a removal request.
RemoveResponses ==
    {[kind |-> "error"], [kind |-> "noCandidates"]}
    \cup {[kind |-> "parts", parts |-> ps] :
            ps \in {<<>>, <<TextPart>>, <<TextPart, InlinePart("X")>>,
                    <<InlinePart("Y"), InlinePart("X")>>}}

\* lines 86-90: the map over data.textBlocks, ts[i] the Date.now() of item i
ProcessedBlocks(items, ts) ==
    [i \in 1..Len(items) |-> ProcessedBlock(items[i], i - 1, ts[i])]

\* lines 80-97: what analyzeImageText settles to on a response
AnalyzeOutcome(resp, ts) ==
    IF resp.kind = "error" THEN Rejected("request failed")
    ELSE IF resp.kind = "empty" THEN Rejected("No response from Gemini")
    ELSE IF resp.kind = "invalid" THEN Rejected("SyntaxError")
    ELSE IF resp.shape = "null" THEN Rejected("TypeError")
    ELSE IF resp.textBlocks = "absent" THEN Resolved(<<>>)
    ELSE IF resp.textBlocks = "notArray" THEN Rejected("TypeError")
    ELSE Resolved(ProcessedBlocks(resp.items, ts))

\* a catch that rethrows, as the one of analyzeImageText does
RemoveCaughtRethrows == Rejected("rethrown")

\* lines 138-141: the catch of removeTextFromImage
RemoveCaught == Resolved(Null)

RECURSIVE FirstInline(_)
\* lines 131-137: the first part with inlineData, or null
FirstInline(parts) ==
    IF parts = <<>> THEN Null
    ELSE IF "inlineData" \in DOMAIN Head(parts)
         THEN Prefix \o Head(parts).inlineData.data
         ELSE FirstInline(Tail(parts))

\* lines 131-141: what removeTextFromImage settles to on a response
RemoveOutcome(resp) ==
    IF resp.kind = "error" THEN RemoveCaught
    ELSE IF resp.kind = "noCandidates" THEN Resolved(Null)
    ELSE Resolved(FirstInline(resp.parts))

Settle(a, resp, ret) == [a EXCEPT !.pc = "done", !.resp = resp, !.ret = ret]

\* a wrapper that sends a failed request once more
RetryAfterRequest(a, resp, ret) ==
    IF resp.kind = "error" /\ a.sent < 2
    THEN [a EXCEPT !.sent = @ + 1]
    ELSE Settle(a, resp, ret)

\* the wrapper's continuation after `await ai.models.generateContent`
AfterRequest(a, resp, ret) == Settle(a, resp, ret)

NoResponse == [kind |-> "none"]
NewCall(fn, image) ==
    [fn |-> fn, pc |-> "init", image |-> image, sent |-> 0,
     resp |-> NoResponse, ret |-> NoRet]

\* base64Image.split(',') on a value that is no string throws
SplitThrows(image) == image = Null

\* analyzeImageText, lines 53-78: up to the await of the request
AnalyzeCall(image) ==
    IF SplitThrows(image)
    THEN Settle(NewCall("analyzeImageText", image), NoResponse, Rejected("TypeError"))
    ELSE [NewCall("analyzeImageText", image) EXCEPT !.pc = "request", !.sent = 1]

\* analyzeImageText, lines 80-97
AnalyzeOnResponse(a, resp, ts) == AfterRequest(a, resp, AnalyzeOutcome(resp, ts))

\* removeTextFromImage, lines 111-129: up to the await of the request
RemoveSend(a) ==
    IF SplitThrows(a.image)
    THEN Settle(a, NoResponse, RemoveCaught)
    ELSE [a EXCEPT !.pc = "request", !.sent = @ + 1]

\* removeTextFromImage, lines 101-104
RemoveCall(image, studio) ==
    IF studio = "none" THEN RemoveSend(NewCall("removeTextFromImage", image))
    ELSE [NewCall("removeTextFromImage", image) EXCEPT !.pc = "hasSelectedApiKey"]

\* removeTextFromImage, lines 104-107: hasSelectedApiKey settled
RemoveOnHasKey(a, outcome, studio) ==
    IF outcome = "reject" THEN Settle(a, NoResponse, RemoveCaught)
    ELSE IF outcome = "false" /\ studio = "hasSelectedApiKey,openSelectKey"
         THEN [a EXCEPT !.pc = "openSelectKey"]
         ELSE RemoveSend(a)

\* removeTextFromImage, lines 106-107: openSelectKey settled
RemoveOnOpenKey(a, outcome) ==
    IF outcome = "reject" THEN Settle(a, NoResponse, RemoveCaught)
    ELSE RemoveSend(a)

\* removeTextFromImage, lines 131-141
RemoveOnResponse(a, resp) == AfterRequest(a, resp, RemoveOutcome(resp))

\* The times Date.now() can return to the n calls of one synchronous map.
Stamps(n) ==
    {ts \in [1..n -> now..MaxNow] : \A i \in 1..n : \A j \in i..n : ts[i] <= ts[j]}
LastStamp(ts) == IF Len(ts) = 0 THEN now ELSE ts[Len(ts)]
Items(resp) == IF "items" \in DOMAIN resp THEN resp.items ELSE <<>>

----------------------------------------------------------------------------
(* The wrappers under a caller that makes one call at a time *)

ServiceImages == Images \cup {Null}

SvcAnalyzeCall ==
    /\ svc = NoCall /\ observed = Nothing
    /\ \E image \in ServiceImages : svc' = AnalyzeCall(image)
    /\ UNCHANGED <<now, observed, aistudio, storeSide, uiSide>>

SvcAnalyzeResponse ==
    /\ svc.fn = "analyzeImageText" /\ svc.pc = "request"
    /\ \E resp \in AnalyzeResponses : \E ts \in Stamps(Len(Items(resp))) :
        /\ svc' = AnalyzeOnResponse(svc, resp, ts)
        /\ now' = LastStamp(ts)
    /\ UNCHANGED <<observed, aistudio, storeSide, uiSide>>

SvcRemoveCall ==
    /\ svc = NoCall /\ observed = Nothing
    /\ \E image \in ServiceImages : svc' = RemoveCall(image, aistudio)
    /\ UNCHANGED <<now, observed, aistudio, storeSide, uiSide>>

SvcHasKey ==
    /\ svc.fn = "removeTextFromImage" /\ svc.pc = "hasSelectedApiKey"
    /\ \E outcome \in {"true", "false", "reject"} :
        svc' = RemoveOnHasKey(svc, outcome, aistudio)
    /\ UNCHANGED <<now, observed, aistudio, storeSide, uiSide>>

SvcOpenKey ==
    /\ svc.fn = "removeTextFromImage" /\ svc.pc = "openSelectKey"
    /\ \E outcome \in {"ok", "reject"} : svc' = RemoveOnOpenKey(svc, outcome)
    /\ UNCHANGED <<now, observed, aistudio, storeSide, uiSide>>

SvcRemoveResponse ==
    /\ svc.fn = "removeTextFromImage" /\ svc.pc = "request"
    /\ \E resp \in RemoveResponses : svc' = RemoveOnResponse(svc, resp)
    /\ UNCHANGED <<now, observed, aistudio, storeSide, uiSide>>

\* the promise settles: the caller takes the value or the error
SvcReturn ==
    /\ svc # NoCall /\ svc.pc = "done"
    /\ svc' = NoCall
    /\ UNCHANGED <<now, observed, aistudio, storeSide, uiSide>>

InitService ==
    /\ now = 0
    /\ store = [k \in {} |-> NoProject]
    /\ uuidsUsed = {}
    /\ calls = EmptyBag
    /\ observed = Nothing
    /\ created = {} /\ quiet = {}
    /\ aistudio \in Studios
    /\ svc = NoCall
    /\ fabric = FALSE /\ route = "/" /\ freshIds = {} /\ deletedIds = {}
    /\ ed = NoEditor /\ dash = NoDashboard /\ app = NoApp
    /\ tasks = EmptyBag /\ cv = NoCanvas /\ loads = EmptyBag
    /\ geo = NoLayout /\ fab = NoFabric

NextService ==
    \/ SvcAnalyzeCall
    \/ SvcAnalyzeResponse
    \/ SvcRemoveCall
    \/ SvcHasKey
    \/ SvcOpenKey
    \/ SvcRemoveResponse
    \/ SvcReturn
    \/ Tick

SpecService == InitService /\ [][NextService]_vars

----------------------------------------------------------------------------
(* Claims about the wrappers *)

SvcDone(fn) == svc.fn = fn /\ svc.pc = "done"
Parts(resp) == IF resp.kind = "parts" THEN resp.parts ELSE <<>>
InlineAt(parts) == {i \in DOMAIN parts : "inlineData" \in DOMAIN parts[i]}

\* C5: removeTextFromImage never rejects: whatever the key-selection step
\* and the request do, it resolves, to null when no part of the response
\* carries inline data (or no response came), and otherwise to the PNG data
\* URL of the first part that carries inline data.
C5_RemoveNeverRejects ==
    SvcDone("removeTextFromImage") =>
        /\ svc.ret.kind = "resolved"
        /\ LET parts == Parts(svc.resp)
               inl == InlineAt(parts)
           IN IF inl = {} THEN svc.ret.value = Null
              ELSE \E i \in inl :
                    /\ \A j \in inl : i <= j
                    /\ svc.ret.value = Prefix \o parts[i].inlineData.data

\* C5 witness: a response with two inline parts resolved to the first one.
C5_Witness ==
    /\ SvcDone("removeTextFromImage")
    /\ Cardinality(InlineAt(Parts(svc.resp))) = 2
    /\ svc.ret = Resolved("data:image/png;base64,Y")

\* C7: every block analyzeImageText returns has currentText equal to its
\* originalText and an id no other block of the result has; a response
\* object without textBlocks gives an empty list, not an error.
C7_BlocksInitialised ==
    SvcDone("analyzeImageText") =>
        /\ svc.ret.kind = "resolved" =>
            LET b == svc.ret.value IN
            /\ \A i \in DOMAIN b : b[i].currentText = b[i].originalText
            /\ \A i, j \in DOMAIN b : i # j => b[i].id # b[j].id
        /\ (svc.resp.kind = "json" /\ svc.resp.shape = "object"
                /\ svc.resp.textBlocks = "absent") => svc.ret = Resolved(<<>>)

\* C7 witness: two blocks stamped with the same time, the second of which
\* came with a currentText of its own.
C7_Witness ==
    /\ SvcDone("analyzeImageText") /\ svc.ret.kind = "resolved"
    /\ Len(svc.ret.value) = 2
    /\ svc.resp.items[2].currentText = "stale"
    /\ svc.ret.value[2].currentText = "Yo"
    /\ svc.ret.value[1].id = "block-0-1" /\ svc.ret.value[2].id = "block-1-1"

----------------------------------------------------------------------------
(* EditorCanvas (components/EditorCanvas, in LoadingOverlay.tsx)           *)

Truthy(v) == v \notin {Null, Undefined}

\* the async functions of the pages that are suspended
Running == BagToSet(tasks)

\* A wrapper call that has settled resumes its caller in the same turn of
\* the event loop (microtasks), before the next event is taken.
Settled(t) == t.pc = "ai" /\ t.ai.pc = "done"
Resuming == \E t \in Running : Settled(t)

\* `processedImageUrl || imageUrl`
ActiveImageUrl(processedImageUrl, imageUrl) ==
    IF Truthy(processedImageUrl) THEN processedImageUrl ELSE imageUrl

\* The props a page renders EditorCanvas with; NoProps when it renders none.
NoProps == [rendered |-> FALSE]
CanvasProps(processedImageUrl, imageUrl, blocks) ==
    [rendered |-> TRUE,
     imageUrl |-> ActiveImageUrl(processedImageUrl, imageUrl),
     blocks |-> blocks,
     isCleaned |-> Truthy(processedImageUrl)]

\* lines 151-160: the mask rectangle of a block
MaskRect(block) == [type |-> "rect", block |-> block.id, fill |-> block.backgroundColor]

\* lines 171-191: the textbox of a block
Textbox(block) == [type |-> "textbox", block |-> block.id, text |-> block.currentText]

\* a mask for every block, cleaned or not
MaskAlways(isCleaned) == TRUE

\* line 148: if (!isCleaned)
MaskWanted(isCleaned) == ~isCleaned

RECURSIVE BlockObjects(_, _)
\* lines 141-194: blocks.forEach, the canvas.add calls in order
BlockObjects(blocks, isCleaned) ==
    IF blocks = <<>> THEN <<>>
    ELSE (IF MaskWanted(isCleaned) THEN <<MaskRect(Head(blocks))>> ELSE <<>>)
         \o <<Textbox(Head(blocks))>>
         \o BlockObjects(Tail(blocks), isCleaned)

NoBuilt == [none |-> TRUE]

\* lines 71-81 and 105-114: a new instance, its init effect and its first
\* content effect.  The <canvas> element exists only when imageUrl is set.
MountedCanvas(props) ==
    LET ref == IF props.imageUrl # Null /\ fabric THEN "canvas" ELSE Null IN
    [mounted |-> TRUE, imageUrl |-> props.imageUrl, isCleaned |-> props.isCleaned,
     ref |-> ref, objects |-> <<>>, background |-> Null,
     loadingCanvas |-> (ref # Null), built |-> NoBuilt]

\* lines 112-114: the Image the content effect starts loading
NewLoad(props) ==
    [src |-> props.imageUrl, blocks |-> props.blocks,
     isCleaned |-> props.isCleaned, orphan |-> FALSE]

\* lines 89-101 and 117: the cleanup nulls the ref the pending callbacks
\* read, so that a callback of an unmounted instance returns at once; what
\* its closure holds no longer matters
OrphanLoad == [src |-> Null, blocks |-> <<>>, isCleaned |-> FALSE, orphan |-> TRUE]
Orphaned(b) == BagOfAll(LAMBDA l : OrphanLoad, b)

Remounts(props) ==
    props.rendered /\ (~cv.mounted \/ cv.imageUrl # props.imageUrl)
Unmounts(props) == ~props.rendered /\ cv.mounted
\* line 208: the deps [imageUrl, blocks, isCleaned]; blocks by reference
Reruns(props, blocksSet) ==
    /\ props.rendered /\ cv.mounted /\ cv.imageUrl = props.imageUrl
    /\ blocksSet \/ cv.isCleaned # props.isCleaned
    /\ cv.ref # Null

\* EditorCanvas after the page rendered it with props (blocksSet: the
\* page set a new blocks array)
CanvasAfter(props, blocksSet) ==
    IF Unmounts(props) THEN NoCanvas
    ELSE IF Remounts(props) THEN MountedCanvas(props)
    ELSE IF Reruns(props, blocksSet)
         THEN [cv EXCEPT !.loadingCanvas = TRUE, !.isCleaned = props.isCleaned]
    ELSE IF props.rendered THEN [cv EXCEPT !.isCleaned = props.isCleaned]
    ELSE cv

LoadsAfter(props, blocksSet) ==
    IF Unmounts(props) THEN Orphaned(loads)
    ELSE IF Remounts(props)
         THEN IF MountedCanvas(props).ref # Null
              THEN Orphaned(loads) (+) SetToBag({NewLoad(props)})
              ELSE Orphaned(loads)
    ELSE IF Reruns(props, blocksSet) THEN loads (+) SetToBag({NewLoad(props)})
    ELSE loads

\* lines 116-201: imgElement.onload
CanvasImageLoaded(l) ==
    /\ ~Resuming
    /\ loads' = loads (-) SetToBag({l})
    /\ cv' = IF l.orphan \/ ~cv.mounted \/ cv.ref = Null THEN cv
             ELSE [cv EXCEPT !.objects = BlockObjects(l.blocks, l.isCleaned),
                             !.background = l.src,
                             !.loadingCanvas = FALSE,
                             !.built = [blocks |-> l.blocks, isCleaned |-> l.isCleaned]]
    /\ UNCHANGED <<now, aistudio, storeSide, svc, observed, canvasSide>>
    /\ UNCHANGED <<fabric, route, freshIds, deletedIds, ed, dash, app, tasks>>

\* lines 203-206: imgElement.onerror
CanvasImageError(l) ==
    /\ ~Resuming
    /\ loads' = loads (-) SetToBag({l})
    /\ cv' = IF l.orphan \/ ~cv.mounted THEN cv ELSE [cv EXCEPT !.loadingCanvas = FALSE]
    /\ UNCHANGED <<now, aistudio, storeSide, svc, observed, canvasSide>>
    /\ UNCHANGED <<fabric, route, freshIds, deletedIds, ed, dash, app, tasks>>

----------------------------------------------------------------------------
(* The async functions of the pages.  One that is suspended at an await    *)
(* is a record in `tasks`: where it is (pc), what its closure holds, the   *)
(* wrapper call it awaits (ai), and whether the component instance that    *)
(* started it is unmounted (orphan), so that its setState calls do nothing.*)

NewTask(kind, pc, id) ==
    [kind |-> kind, pc |-> pc, orphan |-> FALSE, id |-> id,
     imageUrl |-> Null, processedImageUrl |-> Null, blocks |-> <<>>,
     ai |-> NoCall, project |-> NoProject, args |-> NoArgs, list |-> <<>>,
     sent |-> <<>>, detected |-> NoRet]

TasksRoom == BagCardinality(tasks) < MaxTasks
Replace(t, t2) == (tasks (-) SetToBag({t})) (+) SetToBag({t2})
Without(t) == tasks (-) SetToBag({t})

\* history: `sent` lists the generateContent requests sent on behalf of one
\* run of a handler, `detected` what its detection settled to.
Sent(t, a) == IF a.pc = "request" /\ a.sent > t.ai.sent THEN Append(t.sent, a.fn) ELSE t.sent
Detected(t, a) ==
    IF a.fn = "analyzeImageText" /\ a.pc = "done" THEN a.ret ELSE t.detected
Awaiting(t, a) == [t EXCEPT !.ai = a, !.sent = Sent(t, a), !.detected = Detected(t, a)]
Calling(t, a) ==
    [t EXCEPT !.ai = a, !.pc = "ai",
              !.sent = IF a.pc = "request" THEN Append(t.sent, a.fn) ELSE t.sent,
              !.detected = Detected(t, a)]

\* The responses the pages are run against: of each wrapper, a failure, a
\* response without content and one with.
PageAnalyzeResponses ==
    {r \in AnalyzeResponses :
        \/ r.kind \in {"error", "empty", "invalid"}
        \/ r.kind = "json" /\ r.shape = "object" /\ r.textBlocks = "absent"
        \/ Items(r) # <<>>}
PageRemoveResponses ==
    {r \in RemoveResponses :
        r.kind = "error" \/ Parts(r) \in {<<TextPart>>, <<TextPart, InlinePart("X")>>}}

\* geminiService.ts lines 80-97: the detection request of a page settles
TaskAnalyzeResponse(t) ==
    /\ ~Resuming
    /\ t.pc = "ai" /\ t.ai.fn = "analyzeImageText" /\ t.ai.pc = "request"
    /\ \E resp \in PageAnalyzeResponses : \E ts \in Stamps(Len(Items(resp))) :
        /\ tasks' = Replace(t, Awaiting(t, AnalyzeOnResponse(t.ai, resp, ts)))
        /\ now' = LastStamp(ts)
    /\ UNCHANGED <<store, uuidsUsed, aistudio, benchSide>>
    /\ UNCHANGED <<fabric, route, freshIds, deletedIds, ed, dash, app, cv, loads>>

\* geminiService.ts lines 104-107: hasSelectedApiKey settles
TaskHasKey(t) ==
    /\ ~Resuming
    /\ t.pc = "ai" /\ t.ai.fn = "removeTextFromImage" /\ t.ai.pc = "hasSelectedApiKey"
    /\ \E outcome \in {"true", "false", "reject"} :
        tasks' = Replace(t, Awaiting(t, RemoveOnHasKey(t.ai, outcome, aistudio)))
    /\ UNCHANGED <<now, store, uuidsUsed, aistudio, benchSide>>
    /\ UNCHANGED <<fabric, route, freshIds, deletedIds, ed, dash, app, cv, loads>>

\* geminiService.ts lines 106-107: openSelectKey settles
TaskOpenKey(t) ==
    /\ ~Resuming
    /\ t.pc = "ai" /\ t.ai.fn = "removeTextFromImage" /\ t.ai.pc = "openSelectKey"
    /\ \E outcome \in {"ok", "reject"} :
        tasks' = Replace(t, Awaiting(t, RemoveOnOpenKey(t.ai, outcome)))
    /\ UNCHANGED <<now, store, uuidsUsed, aistudio, benchSide>>
    /\ UNCHANGED <<fabric, route, freshIds, deletedIds, ed, dash, app, cv, loads>>

\* geminiService.ts lines 131-141: the removal request of a page settles
TaskRemoveResponse(t) ==
    /\ ~Resuming
    /\ t.pc = "ai" /\ t.ai.fn = "removeTextFromImage" /\ t.ai.pc = "request"
    /\ \E resp \in PageRemoveResponses :
        tasks' = Replace(t, Awaiting(t, RemoveOnResponse(t.ai, resp)))
    /\ UNCHANGED <<now, store, uuidsUsed, aistudio, benchSide>>
    /\ UNCHANGED <<fabric, route, freshIds, deletedIds, ed, dash, app, cv, loads>>

----------------------------------------------------------------------------
(* ProjectEditor (pages/ProjectEditor, src/unnamed/part_000)               *)

\* project.f; undefined when the record has no such key
Field(project, f) == IF f \in DOMAIN project THEN project[f] ELSE Undefined

\* lines 14-22: the state of a new instance; id is the route param
NewEditor(id) ==
    [mounted |-> TRUE, id |-> id, projectName |-> "Untitled Project",
     imageUrl |-> Null, processedImageUrl |-> Null, blocks |-> <<>>,
     isAnalyzing |-> FALSE, statusMessage |-> "", error |-> Null,
     isSaving |-> FALSE]

\* lines 104-114 and 171-179: the EditorCanvas ProjectEditor renders, none
\* on the error screen
EditorProps(e) ==
    IF ~e.mounted \/ e.error # Null THEN NoProps
    ELSE CanvasProps(e.processedImageUrl, e.imageUrl, e.blocks)

\* a page rendered EditorCanvas with props
Render(props, blocksSet) ==
    /\ BagCardinality(LoadsAfter(props, blocksSet)) <= MaxLoads
    /\ cv' = CanvasAfter(props, blocksSet)
    /\ loads' = LoadsAfter(props, blocksSet)

\* a setState of an unmounted instance does nothing
SetEditor(t, e) == IF t.orphan THEN ed ELSE e

\* lines 27-29: getProject(id) reads the store
EdLoadRead(t) ==
    /\ ~Resuming
    /\ t.kind = "load" /\ t.pc = "getProject"
    /\ tasks' = Replace(t, [t EXCEPT !.project = DbGet(store, t.id), !.pc = "loaded"])
    /\ UNCHANGED <<now, store, uuidsUsed, aistudio, benchSide>>
    /\ UNCHANGED <<fabric, route, freshIds, deletedIds, ed, dash, app, cv, loads>>

\* lines 30-37: the load takes the project, or the not-found error
EdLoadDeliver(t) ==
    /\ ~Resuming
    /\ t.kind = "load" /\ t.pc = "loaded"
    /\ LET e == IF t.project = NoProject
                THEN [ed EXCEPT !.error = "Project not found"]
                ELSE [ed EXCEPT !.projectName = t.project.name,
                                !.imageUrl = t.project.originalImage,
                                !.processedImageUrl = Field(t.project, "processedImage"),
                                !.blocks = t.project.blocks]
       IN /\ ed' = SetEditor(t, e)
          /\ Render(EditorProps(ed'), ~t.orphan /\ t.project # NoProject)
    /\ tasks' = Without(t)
    /\ UNCHANGED <<now, store, uuidsUsed, aistudio, benchSide>>
    /\ UNCHANGED <<fabric, route, freshIds, deletedIds, dash, app>>

\* the closure of a handler: the state of the render it was created in
Handler(kind, a) ==
    Calling([NewTask(kind, "ai", ed.id) EXCEPT
                !.imageUrl = ed.imageUrl,
                !.processedImageUrl = ed.processedImageUrl,
                !.blocks = ed.blocks], a)

\* lines 69-74: reDetectText up to its await
EdReDetectText ==
    /\ ~Resuming
    /\ ed.mounted /\ ed.error = Null /\ ~ed.isAnalyzing /\ Truthy(ed.imageUrl)
    /\ TasksRoom
    /\ ed' = [ed EXCEPT !.isAnalyzing = TRUE,
                        !.statusMessage = "Re-detecting text regions..."]
    /\ tasks' = tasks (+) SetToBag({Handler("reDetectText", AnalyzeCall(ed.imageUrl))})
    /\ UNCHANGED <<now, store, uuidsUsed, aistudio, benchSide>>
    /\ UNCHANGED <<fabric, route, freshIds, deletedIds, dash, app, cv, loads>>

\* lines 50-53: the updates saveChanges hands to updateProject; an argument
\* is <<v>> when given and <<>> when left out
SaveUpdates(t, newBlocks, newProcessedImage) ==
    [blocks |-> IF newBlocks # <<>> THEN newBlocks[1] ELSE t.blocks,
     processedImage |->
        IF newProcessedImage # <<>> THEN newProcessedImage[1]
        ELSE IF Truthy(t.processedImageUrl) THEN t.processedImageUrl
        ELSE Undefined]

\* a catch that also drops the blocks
ReDetectFailedDropsBlocks(e) ==
    [e EXCEPT !.error = "Failed to detect text", !.isAnalyzing = FALSE, !.blocks = <<>>]

\* lines 77-81: the catch and the finally of reDetectText
ReDetectFailed(e) ==
    [e EXCEPT !.error = "Failed to detect text", !.isAnalyzing = FALSE]

\* lines 75-81 and 46-53: reDetectText after analyzeImageText settled
EdReDetectResume(t) ==
    /\ t.kind = "reDetectText" /\ t.pc = "ai" /\ t.ai.pc = "done"
    /\ IF t.ai.ret.kind = "resolved"
       THEN /\ ed' = SetEditor(t, [ed EXCEPT !.blocks = t.ai.ret.value,
                                             !.isSaving = TRUE])
            /\ Render(EditorProps(ed'), ~t.orphan)
            /\ tasks' = Replace(t, [t EXCEPT !.pc = "read",
                            !.args = SaveUpdates(t, <<t.ai.ret.value>>, <<>>)])
       ELSE /\ ed' = SetEditor(t, ReDetectFailed(ed))
            /\ Render(EditorProps(ed'), FALSE)
            /\ tasks' = Without(t)
    /\ UNCHANGED <<now, store, uuidsUsed, aistudio, benchSide>>
    /\ UNCHANGED <<fabric, route, freshIds, deletedIds, dash, app>>

\* storageService updateProject, lines 210-212, under saveChanges: the read.
\* On a missing project it throws, and saveChanges catches (lines 54-55).
EdSaveRead(t) ==
    /\ ~Resuming
    /\ t.kind \in {"reDetectText", "reCleanBackground"} /\ t.pc = "read"
    /\ LET project == DbGet(store, t.id) IN
       tasks' = Replace(t, IF project = NoProject THEN [t EXCEPT !.pc = "saved"]
                           ELSE [t EXCEPT !.project = project, !.pc = "put"])
    /\ UNCHANGED <<now, store, uuidsUsed, aistudio, benchSide>>
    /\ UNCHANGED <<fabric, route, freshIds, deletedIds, ed, dash, app, cv, loads>>

\* storageService updateProject, lines 213-218, under saveChanges: the put
EdSavePut(t) ==
    /\ ~Resuming
    /\ t.kind \in {"reDetectText", "reCleanBackground"} /\ t.pc = "put"
    /\ store' = DbPut(store, UpdatePutValue(t))
    /\ tasks' = Replace(t, [t EXCEPT !.pc = "saved"])
    /\ UNCHANGED <<now, uuidsUsed, aistudio, benchSide>>
    /\ UNCHANGED <<fabric, route, freshIds, deletedIds, ed, dash, app, cv, loads>>

\* lines 56-58 and then 79-81 or 98-100: the two finally blocks
EdSaved(t) ==
    /\ ~Resuming
    /\ t.kind \in {"reDetectText", "reCleanBackground"} /\ t.pc = "saved"
    /\ ed' = SetEditor(t, [ed EXCEPT !.isSaving = FALSE, !.isAnalyzing = FALSE])
    /\ tasks' = Without(t)
    /\ UNCHANGED <<now, store, uuidsUsed, aistudio, benchSide>>
    /\ UNCHANGED <<fabric, route, freshIds, deletedIds, dash, app, cv, loads>>

\* lines 84-89: reCleanBackground up to its await
EdReCleanBackground ==
    /\ ~Resuming
    /\ ed.mounted /\ ed.error = Null /\ ~ed.isAnalyzing /\ Truthy(ed.imageUrl)
    /\ TasksRoom
    /\ ed' = [ed EXCEPT !.isAnalyzing = TRUE,
                        !.statusMessage = "Re-cleaning background..."]
    /\ tasks' = tasks (+) SetToBag({Handler("reCleanBackground",
                                            RemoveCall(ed.imageUrl, aistudio))})
    /\ UNCHANGED <<now, store, uuidsUsed, aistudio, benchSide>>
    /\ UNCHANGED <<fabric, route, freshIds, deletedIds, dash, app, cv, loads>>

\* lines 90-100 and 46-53: reCleanBackground after removeTextFromImage settled
EdReCleanResume(t) ==
    /\ t.kind = "reCleanBackground" /\ t.pc = "ai" /\ t.ai.pc = "done"
    /\ IF t.ai.ret.kind = "resolved" /\ Truthy(t.ai.ret.value)
       THEN /\ ed' = SetEditor(t, [ed EXCEPT !.processedImageUrl = t.ai.ret.value,
                                             !.isSaving = TRUE])
            /\ tasks' = Replace(t, [t EXCEPT !.pc = "read",
                            !.args = SaveUpdates(t, <<>>, <<t.ai.ret.value>>)])
       ELSE /\ ed' = SetEditor(t, [ed EXCEPT
                        !.error = IF t.ai.ret.kind = "resolved"
                                  THEN "Could not generate cleaned image"
                                  ELSE "Failed to clean background",
                        !.isAnalyzing = FALSE])
            /\ tasks' = Without(t)
    /\ Render(EditorProps(ed'), FALSE)
    /\ UNCHANGED <<now, store, uuidsUsed, aistudio, benchSide>>
    /\ UNCHANGED <<fabric, route, freshIds, deletedIds, dash, app>>

----------------------------------------------------------------------------
(* Dashboard (pages/Dashboard.tsx)                                         *)

\* lines 8-9: the state of a new instance; alerts: the messages alert()
\* has shown (lines 33 and 49)
NewDashboard ==
    [mounted |-> TRUE, projects |-> <<>>, isLoading |-> TRUE, alerts |-> {}]

\* a setState of an unmounted instance does nothing
SetDashboard(t, d) == IF t.orphan THEN dash ELSE d

RECURSIVE SortByUpdatedDesc(_)
\* line 15: list.sort((a, b) => b.updatedAt - a.updatedAt), a stable sort
SortByUpdatedDesc(list) ==
    IF list = <<>> THEN <<>>
    ELSE LET i == CHOOSE i \in DOMAIN list :
                    /\ \A j \in DOMAIN list : list[j].updatedAt <= list[i].updatedAt
                    /\ \A j \in 1..(i - 1) : list[j].updatedAt < list[i].updatedAt
         IN <<list[i]>> \o SortByUpdatedDesc(SubSeq(list, 1, i - 1) \o
                                             SubSeq(list, i + 1, Len(list)))

\* lines 11-13: getAllProjects reads the index
DashLoadRead(t) ==
    /\ ~Resuming
    /\ t.kind = "loadProjects" /\ t.pc = "getAllProjects"
    /\ tasks' = Replace(t, [t EXCEPT !.list = DbGetAllFromIndex(store), !.pc = "loaded"])
    /\ UNCHANGED <<now, store, uuidsUsed, aistudio, benchSide>>
    /\ UNCHANGED <<fabric, route, freshIds, deletedIds, ed, dash, app, cv, loads>>

\* lines 15-19: the list is shown
DashLoadDeliver(t) ==
    /\ ~Resuming
    /\ t.kind = "loadProjects" /\ t.pc = "loaded"
    /\ dash' = SetDashboard(t, [dash EXCEPT !.projects = SortByUpdatedDesc(t.list),
                                            !.isLoading = FALSE])
    /\ tasks' = Without(t)
    /\ UNCHANGED <<now, store, uuidsUsed, aistudio, benchSide>>
    /\ UNCHANGED <<fabric, route, freshIds, deletedIds, ed, app, cv, loads>>

\* The files the user can pick: name (split at '.'), size, and what
\* FileReader.readAsDataURL gives for it.
MaxUploadBytes == 5 * 1024 * 1024
Files ==
    {[name |-> <<"photo", "png">>, size |-> 1024, data |-> "data:imgA"],
     [name |-> <<"big", "png">>, size |-> MaxUploadBytes + 1, data |-> "data:imgA"]}

\* line 42: file.name.split('.')[0] || "Untitled Project"
FileStem(name) == IF name[1] = "" THEN "Untitled Project" ELSE name[1]

\* What leaves with a page: its suspended functions go on, their setState
\* calls do nothing; a read whose result only setState would take is dropped.
Leave(b, dropped) ==
    LET kept == [t \in {x \in DOMAIN b : x.kind \notin dropped} |-> b[t]]
    IN BagOfAll(LAMBDA t : [t EXCEPT !.orphan = TRUE], kept)

ProjectPath(id) == "/project/" \o id

\* <Route path="/project/:id">: the router shows ProjectEditor for id.  An
\* instance that is mounted stays, with the new param (lines 11, 25-44).
ShowProject(id, b) ==
    /\ route' = ProjectPath(id)
    /\ IF ed.mounted
       THEN /\ ed' = [ed EXCEPT !.id = id]
            /\ tasks' = IF id # ed.id
                        THEN b (+) SetToBag({NewTask("load", "getProject", id)})
                        ELSE b
            /\ UNCHANGED <<dash, cv, loads>>
       ELSE /\ ed' = NewEditor(id)
            /\ dash' = NoDashboard
            /\ tasks' = Leave(b, {"loadProjects"})
                            (+) SetToBag({NewTask("load", "getProject", id)})
            /\ Render(EditorProps(ed'), FALSE)
    /\ BagCardinality(tasks') <= MaxTasks

\* <Route path="/">: the router shows Dashboard (lines 23-25: loadProjects)
ShowDashboard(b) ==
    /\ route' = "/"
    /\ IF dash.mounted
       THEN /\ tasks' = b
            /\ UNCHANGED <<ed, dash, cv, loads>>
       ELSE /\ dash' = NewDashboard
            /\ ed' = NoEditor
            /\ tasks' = Leave(b, {"load"})
                            (+) SetToBag({NewTask("loadProjects", "getAllProjects", Null)})
            /\ Render(NoProps, FALSE)
    /\ BagCardinality(tasks') <= MaxTasks

\* lines 27-39: handleCreateProject up to readAsDataURL
DashCreateProject ==
    /\ ~Resuming
    /\ dash.mounted
    /\ \E file \in Files :
        IF file.size > MaxUploadBytes
        THEN /\ dash' = [dash EXCEPT !.alerts = @ \cup {"Image size too large (max 5MB)"}]
             /\ UNCHANGED tasks
        ELSE /\ TasksRoom
             /\ tasks' = tasks (+) SetToBag({[NewTask("create", "reading", Null) EXCEPT
                            !.imageUrl = file.data,
                            !.args = [name |-> FileStem(file.name)]]})
             /\ UNCHANGED dash
    /\ UNCHANGED <<now, store, uuidsUsed, aistudio, benchSide>>
    /\ UNCHANGED <<fabric, route, freshIds, deletedIds, ed, app, cv, loads>>

\* lines 40-44 and createProject lines 183-193: onloadend, the id, the record
DashReaderLoadEnd(t) ==
    /\ ~Resuming
    /\ t.kind = "create" /\ t.pc = "reading"
    /\ \E base64 \in {t.imageUrl}, id \in uuidv4 :
        /\ uuidsUsed' = uuidsUsed \cup {id}
        /\ tasks' = Replace(t, [t EXCEPT !.pc = "put", !.id = id,
                        !.project = NewProject(id, t.args.name, base64, <<>>, now)])
    /\ UNCHANGED <<now, store, aistudio, benchSide>>
    /\ UNCHANGED <<fabric, route, freshIds, deletedIds, ed, dash, app, cv, loads>>

\* createProject lines 194-195: the put
DashCreatePut(t) ==
    /\ ~Resuming
    /\ t.kind = "create" /\ t.pc = "put"
    /\ store' = DbPut(store, t.project)
    /\ tasks' = Replace(t, [t EXCEPT !.pc = "created"])
    /\ UNCHANGED <<now, uuidsUsed, aistudio, benchSide>>
    /\ UNCHANGED <<fabric, route, freshIds, deletedIds, ed, dash, app, cv, loads>>

\* createProject lines 194-195 and Dashboard lines 40-46: the put fails
\* (the transaction aborts, the quota is exceeded) and createProject
\* rejects.  The await is in the async reader.onloadend, which has no catch
\* of its own and has left the try of lines 37-50 long before: the promise
\* of onloadend rejects and nobody takes it.
DashCreatePutFails(t) ==
    /\ ~Resuming
    /\ t.kind = "create" /\ t.pc = "put"
    /\ tasks' = Without(t)
    /\ UNCHANGED <<now, store, uuidsUsed, aistudio, benchSide>>
    /\ UNCHANGED <<fabric, route, freshIds, deletedIds, ed, dash, app, cv, loads>>

\* line 45: navigate(`/project/${newId}`)
DashCreateNavigate(t) ==
    /\ ~Resuming
    /\ t.kind = "create" /\ t.pc = "created"
    /\ ShowProject(t.id, Without(t))
    /\ freshIds' = freshIds \cup {t.id}
    /\ UNCHANGED <<now, store, uuidsUsed, aistudio, benchSide>>
    /\ UNCHANGED <<fabric, deletedIds, app>>

Listed == {dash.projects[i].id : i \in DOMAIN dash.projects}

\* lines 53-56: handleDelete, confirmed
DashDelete ==
    /\ ~Resuming
    /\ dash.mounted /\ ~dash.isLoading /\ TasksRoom
    /\ \E id \in Listed :
        tasks' = tasks (+) SetToBag({NewTask("delete", "deleteProject", id)})
    /\ UNCHANGED <<now, store, uuidsUsed, aistudio, benchSide>>
    /\ UNCHANGED <<fabric, route, freshIds, deletedIds, ed, dash, app, cv, loads>>

\* deleteProject lines 222-223
DashDeleteRun(t) ==
    /\ ~Resuming
    /\ t.kind = "delete" /\ t.pc = "deleteProject"
    /\ store' = DbDelete(store, t.id)
    /\ deletedIds' = deletedIds \cup {t.id}
    /\ tasks' = Replace(t, [t EXCEPT !.pc = "deleted"])
    /\ UNCHANGED <<now, uuidsUsed, aistudio, benchSide>>
    /\ UNCHANGED <<fabric, route, freshIds, ed, dash, app, cv, loads>>

\* line 57: loadProjects() again
DashDeleteDone(t) ==
    /\ ~Resuming
    /\ t.kind = "delete" /\ t.pc = "deleted"
    /\ tasks' = IF t.orphan THEN Without(t)
                ELSE Replace(t, NewTask("loadProjects", "getAllProjects", Null))
    /\ UNCHANGED <<now, store, uuidsUsed, aistudio, benchSide>>
    /\ UNCHANGED <<fabric, route, freshIds, deletedIds, ed, dash, app, cv, loads>>

\* line 108: a click on a project card
DashOpenProject ==
    /\ ~Resuming
    /\ dash.mounted /\ ~dash.isLoading
    /\ \E id \in Listed : ShowProject(id, tasks)
    /\ UNCHANGED <<now, store, uuidsUsed, aistudio, benchSide>>
    /\ UNCHANGED <<fabric, freshIds, deletedIds, app>>

\* part_000 lines 111 and 121: navigate('/')
EdNavigateHome ==
    /\ ~Resuming
    /\ ed.mounted
    /\ ShowDashboard(tasks)
    /\ UNCHANGED <<now, store, uuidsUsed, aistudio, benchSide>>
    /\ UNCHANGED <<fabric, freshIds, deletedIds, app>>

InitRouted ==
    /\ now = 0
    /\ store = [k \in {} |-> NoProject]
    /\ uuidsUsed = {}
    /\ calls = EmptyBag /\ observed = Nothing /\ created = {} /\ quiet = {}
    /\ svc = NoCall
    /\ aistudio = "none"
    /\ fabric \in BOOLEAN
    /\ route = "/" /\ freshIds = {} /\ deletedIds = {}
    /\ ed = NoEditor /\ app = NoApp
    /\ dash = NewDashboard
    /\ tasks = SetToBag({NewTask("loadProjects", "getAllProjects", Null)})
    /\ cv = NoCanvas /\ loads = EmptyBag
    /\ geo = NoLayout /\ fab = NoFabric

NextRouted ==
    \/ DashCreateProject
    \/ DashDelete
    \/ DashOpenProject
    \/ EdNavigateHome
    \/ \E t \in Running : DashLoadRead(t)
    \/ \E t \in Running : DashLoadDeliver(t)
    \/ \E t \in Running : DashReaderLoadEnd(t)
    \/ \E t \in Running : DashCreatePut(t)
    \/ \E t \in Running : DashCreatePutFails(t)
    \/ \E t \in Running : DashCreateNavigate(t)
    \/ \E t \in Running : DashDeleteRun(t)
    \/ \E t \in Running : DashDeleteDone(t)
    \/ \E t \in Running : EdLoadRead(t)
    \/ \E t \in Running : EdLoadDeliver(t)
    \/ \E l \in BagToSet(loads) : CanvasImageLoaded(l)
    \/ \E l \in BagToSet(loads) : CanvasImageError(l)

SpecRouted == InitRouted /\ [][NextRouted]_vars

----------------------------------------------------------------------------
(* The editor opened on a stored project: the page is loaded at            *)
(* /project/<id> with the project left in the store by an earlier visit.   *)

OpenedId == UuidOrder[1]

\* What earlier visits can have left under OpenedId: the project as
\* created, or as saved after a detection and a removal.
Persisted ==
    LET fresh == NewProject(OpenedId, "photo", "data:imgA", <<>>, 0) IN
    {fresh,
     UpdatedProject(fresh, [blocks |-> <<ProcessedBlock(RawHi, 0, 0)>>,
                            processedImage |-> "data:image/png;base64,X"], 0)}

InitEditor ==
    /\ now = 0
    /\ \E project \in Persisted : store = DbPut([k \in {} |-> NoProject], project)
    /\ uuidsUsed = {OpenedId}
    /\ calls = EmptyBag /\ observed = Nothing /\ created = {} /\ quiet = {}
    /\ svc = NoCall
    /\ aistudio \in Studios
    /\ fabric \in BOOLEAN
    /\ route = ProjectPath(OpenedId) /\ freshIds = {} /\ deletedIds = {}
    /\ dash = NoDashboard /\ app = NoApp
    /\ ed = NewEditor(OpenedId)
    /\ tasks = SetToBag({NewTask("load", "getProject", OpenedId)})
    /\ cv = MountedCanvas(EditorProps(NewEditor(OpenedId))) /\ loads = EmptyBag
    /\ geo = NoLayout /\ fab = NoFabric

NextEditor ==
    \/ EdReDetectText
    \/ EdReCleanBackground
    \/ EdNavigateHome
    \/ \E t \in Running : DashLoadRead(t)
    \/ \E t \in Running : DashLoadDeliver(t)
    \/ \E t \in Running : EdLoadRead(t)
    \/ \E t \in Running : EdLoadDeliver(t)
    \/ \E t \in Running : TaskAnalyzeResponse(t)
    \/ \E t \in Running : TaskHasKey(t)
    \/ \E t \in Running : TaskOpenKey(t)
    \/ \E t \in Running : TaskRemoveResponse(t)
    \/ \E t \in Running : EdReDetectResume(t)
    \/ \E t \in Running : EdReCleanResume(t)
    \/ \E t \in Running : EdSaveRead(t)
    \/ \E t \in Running : EdSavePut(t)
    \/ \E t \in Running : EdSaved(t)
    \/ \E l \in BagToSet(loads) : CanvasImageLoaded(l)
    \/ \E l \in BagToSet(loads) : CanvasImageError(l)

SpecEditor == InitEditor /\ [][NextEditor]_vars

----------------------------------------------------------------------------
(* The standalone App (src/App.tsx)                                        *)

\* The files the user can pick in App, with what FileReader gives for them.
AppFiles == Files

\* useState<File | null>(null)
NoFile == [none |-> TRUE]

\* lines 9-15: the state of App; urls counts the object URLs created.
\* history: blocksOf and cleanedOf name the upload (its object URL) that
\* the run which set blocks, or the cleaned image, was started on.
NewApp ==
    [mounted |-> TRUE, imageFile |-> NoFile, imageUrl |-> Null,
     processedImageUrl |-> Null, isAnalyzing |-> FALSE,
     statusMessage |-> "Analyzing Image Structure...", error |-> Null,
     blocks |-> <<>>, urls |-> 0, blocksOf |-> Null, cleanedOf |-> Null]

MaxUrls == 2        \* object URLs created in one session

\* URL.createObjectURL(file): a URL no earlier call returned
ObjectUrl(n) == "blob:" \o ToString(n)

\* lines 80 and 170-178: the EditorCanvas App renders
AppProps(a) == CanvasProps(a.processedImageUrl, a.imageUrl, a.blocks)

\* lines 17-31: handleFileChange
AppHandleFileChange ==
    /\ ~Resuming
    /\ app.mounted
    /\ \E file \in AppFiles :
        IF file.size > MaxUploadBytes
        THEN /\ app' = [app EXCEPT !.error =
                    "File size too large. Please upload an image under 5MB."]
             /\ UNCHANGED <<cv, loads>>
        ELSE /\ app.urls < MaxUrls
             /\ app' = [app EXCEPT !.imageFile = file,
                                   !.imageUrl = ObjectUrl(app.urls + 1),
                                   !.urls = @ + 1,
                                   !.processedImageUrl = Null,
                                   !.cleanedOf = Null,
                                   !.blocks = <<>>,
                                   !.blocksOf = Null,
                                   !.error = Null]
             /\ Render(AppProps(app'), TRUE)
    /\ UNCHANGED <<now, store, uuidsUsed, aistudio, benchSide>>
    /\ UNCHANGED <<fabric, route, freshIds, deletedIds, ed, dash, tasks>>

\* lines 33-42 and 129-131: startAnalysis up to readAsDataURL; its button
\* is rendered while there are no blocks and no analysis runs
AppStartAnalysis ==
    /\ ~Resuming
    /\ app.mounted /\ app.imageFile # NoFile /\ Truthy(app.imageUrl)
    /\ app.blocks = <<>> /\ ~app.isAnalyzing
    /\ TasksRoom
    /\ app' = [app EXCEPT !.isAnalyzing = TRUE, !.error = Null]
    /\ tasks' = tasks (+) SetToBag({[NewTask("startAnalysis", "reading", Null)
                                        EXCEPT !.imageUrl = app.imageFile.data,
                                               !.args = [upload |-> app.imageUrl]]})
    /\ UNCHANGED <<now, store, uuidsUsed, aistudio, benchSide>>
    /\ UNCHANGED <<fabric, route, freshIds, deletedIds, ed, dash, cv, loads>>

\* lines 44-49: onloadend; reader.result is null when the read failed
AppReaderLoadEnd(t) ==
    /\ ~Resuming
    /\ t.kind = "startAnalysis" /\ t.pc = "reading"
    /\ \E base64data \in {t.imageUrl, Null} :
        tasks' = Replace(t, Calling([t EXCEPT !.imageUrl = base64data],
                                    AnalyzeCall(base64data)))
    /\ app' = [app EXCEPT !.statusMessage = "Detecting text regions..."]
    /\ UNCHANGED <<now, store, uuidsUsed, aistudio, benchSide>>
    /\ UNCHANGED <<fabric, route, freshIds, deletedIds, ed, dash, cv, loads>>

\* a finally that resets the message and leaves isAnalyzing
AnalysisEndedOverlayStays(a) ==
    [a EXCEPT !.statusMessage = "Analyzing Image Structure..."]

\* lines 64-67: the finally of startAnalysis
AnalysisEnded(a) ==
    [a EXCEPT !.isAnalyzing = FALSE, !.statusMessage = "Analyzing Image Structure..."]

\* lines 61-63: the catch of startAnalysis
AnalysisFailed(a) ==
    AnalysisEnded([a EXCEPT !.error = "Failed to process image. Please try again."])

\* a startAnalysis that asks for the removal whatever the detection gave
RemovalWantedAlways(ret) == TRUE

\* lines 49-54: the removal is asked for when the await of the detection
\* returned, not when it threw
RemovalWanted(ret) == ret.kind = "resolved"

\* lines 49-54 and 61-67: startAnalysis after analyzeImageText settled
AppAnalyzeResume(t) ==
    /\ t.kind = "startAnalysis" /\ Settled(t) /\ t.ai.fn = "analyzeImageText"
    /\ IF RemovalWanted(t.ai.ret)
       THEN /\ app' = [app EXCEPT
                        !.blocks = IF t.ai.ret.kind = "resolved"
                                   THEN t.ai.ret.value ELSE @,
                        !.blocksOf = IF t.ai.ret.kind = "resolved"
                                     THEN t.args.upload ELSE @,
                        !.statusMessage =
                            "Removing text from background (using Gemini Pro Image)..."]
            /\ tasks' = Replace(t, Calling(t, RemoveCall(t.imageUrl, aistudio)))
            /\ Render(AppProps(app'), t.ai.ret.kind = "resolved")
       ELSE /\ app' = AnalysisFailed(app)
            /\ tasks' = Without(t)
            /\ UNCHANGED <<cv, loads>>
    /\ UNCHANGED <<now, store, uuidsUsed, aistudio, benchSide>>
    /\ UNCHANGED <<fabric, route, freshIds, deletedIds, ed, dash>>

\* lines 54-67: startAnalysis after removeTextFromImage settled
AppRemoveResume(t) ==
    /\ t.kind = "startAnalysis" /\ Settled(t) /\ t.ai.fn = "removeTextFromImage"
    /\ app' = IF t.ai.ret.kind = "rejected" THEN AnalysisFailed(app)
              ELSE IF Truthy(t.ai.ret.value)
                   THEN AnalysisEnded([app EXCEPT !.processedImageUrl = t.ai.ret.value,
                                                  !.cleanedOf = t.args.upload])
              ELSE AnalysisEnded(app)
    /\ tasks' = Without(t)
    /\ Render(AppProps(app'), FALSE)
    /\ UNCHANGED <<now, store, uuidsUsed, aistudio, benchSide>>
    /\ UNCHANGED <<fabric, route, freshIds, deletedIds, ed, dash>>

InitApp ==
    /\ now = 0
    /\ store = [k \in {} |-> NoProject]
    /\ uuidsUsed = {}
    /\ calls = EmptyBag /\ observed = Nothing /\ created = {} /\ quiet = {}
    /\ svc = NoCall
    /\ aistudio \in Studios
    /\ fabric \in BOOLEAN
    /\ route = "/" /\ freshIds = {} /\ deletedIds = {}
    /\ ed = NoEditor /\ dash = NoDashboard
    /\ app = NewApp
    /\ tasks = EmptyBag
    /\ cv = MountedCanvas(AppProps(NewApp)) /\ loads = EmptyBag
    /\ geo = NoLayout /\ fab = NoFabric

NextApp ==
    \/ AppHandleFileChange
    \/ AppStartAnalysis
    \/ \E t \in Running : AppReaderLoadEnd(t)
    \/ \E t \in Running : TaskAnalyzeResponse(t)
    \/ \E t \in Running : TaskHasKey(t)
    \/ \E t \in Running : TaskOpenKey(t)
    \/ \E t \in Running : TaskRemoveResponse(t)
    \/ \E t \in Running : AppAnalyzeResume(t)
    \/ \E t \in Running : AppRemoveResume(t)
    \/ \E l \in BagToSet(loads) : CanvasImageLoaded(l)
    \/ \E l \in BagToSet(loads) : CanvasImageError(l)

SpecApp == InitApp /\ [][NextApp]_vars

----------------------------------------------------------------------------
(* The pages that call the wrappers: the editor or the standalone App      *)

Init == InitEditor \/ InitApp

Next == NextEditor \/ NextApp

Spec == Init /\ [][Next]_vars

----------------------------------------------------------------------------
(* Claims about the pages that call the wrappers *)

Detection == "analyzeImageText"
Removal == "removeTextFromImage"

\* C4: one call of analyzeImageText or removeTextFromImage sends at most one
\* generateContent request, and one run of startAnalysis, reDetectText or
\* reCleanBackground (one user action) has at most one request sent per
\* wrapper it calls: reDetectText only a detection, reCleanBackground only
\* a removal, startAnalysis at most one of each.  A request that failed is
\* not sent again.
C4_OneRequestPerCall ==
    \A t \in Running :
        /\ t.ai # NoCall => t.ai.sent <= 1
        /\ \A i, j \in DOMAIN t.sent : i # j => t.sent[i] # t.sent[j]
        /\ t.kind = "reDetectText" => t.sent \in {<<>>, <<Detection>>}
        /\ t.kind = "reCleanBackground" => t.sent \in {<<>>, <<Removal>>}
        /\ t.kind = "startAnalysis" =>
                t.sent \in {<<>>, <<Detection>>, <<Detection, Removal>>}

\* C4 witness: the removal request of a startAnalysis failed and the call
\* has settled, after the one request each wrapper sent.
C4_Witness ==
    \E t \in Running :
        /\ t.kind = "startAnalysis" /\ Settled(t)
        /\ t.ai.fn = Removal /\ t.ai.resp.kind = "error" /\ t.ai.sent = 1
        /\ t.sent = <<Detection, Removal>>

\* C6: analyzeImageText rejects, with no value, when its request failed,
\* the response had no text or the text was no JSON; and the step of a
\* mounted editor's reDetectText that takes the rejection sets the error
\* 'Failed to detect text', leaves blocks as they were, writes nothing to
\* the store and ends the run, so that no write follows.
C6_DetectFailureLeavesBlocks ==
    /\ [](\A t \in Running :
            (t.ai.fn = Detection /\ t.ai.pc = "done"
                /\ t.ai.resp.kind \in {"error", "empty", "invalid"}) =>
            (t.ai.ret.kind = "rejected" /\ "value" \notin DOMAIN t.ai.ret))
    /\ [][\A t \in Running :
            (t.kind = "reDetectText" /\ Settled(t) /\ ~t.orphan
                /\ t.ai.ret.kind = "rejected") =>
            /\ ed'.error = "Failed to detect text"
            /\ ed'.blocks = ed.blocks
            /\ store' = store
            /\ tasks' = Without(t)]_vars

\* C6 witness: a detection failed in an editor that shows a block; the
\* error is set and the block is still there, in the state and in the store.
C6_Witness ==
    /\ ed.mounted /\ ed.error = "Failed to detect text"
    /\ Len(ed.blocks) = 1
    /\ store[ed.id].blocks = ed.blocks
    /\ tasks = EmptyBag

Positions(objects, type, id) ==
    {k \in DOMAIN objects : objects[k].type = type /\ objects[k].block = id}

\* C8: the canvas of the editor is rendered with the cleaned image when the
\* editor has one and with the source image otherwise, and isCleaned says
\* which; once a content load has completed the canvas shows that image and
\* holds nothing but, for each block of the load, one textbox and, when
\* there is no cleaned image, one mask rectangle placed before the textbox.
C8_CanvasFollowsCleanedImage ==
    /\ cv.mounted =>
        /\ ed.mounted
        /\ cv.imageUrl = IF ed.processedImageUrl \in {Null, Undefined}
                         THEN ed.imageUrl ELSE ed.processedImageUrl
        /\ cv.isCleaned = (ed.processedImageUrl \notin {Null, Undefined})
    /\ (cv.mounted /\ cv.built # NoBuilt) =>
        LET b == cv.built.blocks
            masks == IF cv.isCleaned THEN 0 ELSE 1
        IN /\ cv.background = cv.imageUrl
           /\ cv.built.isCleaned = cv.isCleaned
           /\ Len(cv.objects) = Len(b) * (1 + masks)
           /\ \A i \in DOMAIN b :
                /\ Cardinality(Positions(cv.objects, "textbox", b[i].id)) = 1
                /\ Cardinality(Positions(cv.objects, "rect", b[i].id)) = masks
                /\ \A m \in Positions(cv.objects, "rect", b[i].id) :
                   \A x \in Positions(cv.objects, "textbox", b[i].id) : m < x

\* C8 witness: a load completed for two blocks on the source image: mask,
\* textbox, mask, textbox.
C8_Witness ==
    /\ cv.mounted /\ cv.built # NoBuilt /\ ~cv.isCleaned
    /\ Len(cv.built.blocks) = 2 /\ Len(cv.objects) = 4
    /\ cv.objects[1].type = "rect" /\ cv.objects[2].type = "textbox"
    /\ cv.background = ed.imageUrl

Analyses == {t \in Running : t.kind = "startAnalysis"}
NoImage(t) == Settled(t) /\ t.ai.fn = Removal /\ t.ai.ret = Resolved(Null)

\* What C9 says of the order: the detection is requested first, and the
\* removal is called only in a run whose detection resolved.
DetectionFirst ==
    \A t \in Analyses :
        /\ t.sent \in {<<>>, <<Detection>>, <<Detection, Removal>>}
        /\ t.ai.fn = Removal => t.detected.kind = "resolved"

----------------------------------------------------------------------------
(* Claims about the routed pages *)

----------------------------------------------------------------------------
(* EditorCanvas: the geometry of the objects of one block (onload, lines   *)
(* 124-125 and 142-176).  The source computes in JavaScript numbers; here  *)
(* a length is a whole number of units of 1/(PerMille * PadDiv) pixel, in  *)
(* which x, w, w * 0.05 and their sums are exact for whole box values and  *)
(* whole image sizes.  The rounding of doubles is not modelled.            *)

PerMille == 1000    \* box_2d is normalised to 0..1000 (lines 142-145)
PadDiv == 20        \* 0.05 = 1 / 20 (lines 149-150)
FallbackWidth == 800    \* line 124
FallbackHeight == 600   \* line 125
PixelUnits == PerMille * PadDiv

\* lines 124-125: naturalWidth || 800, naturalHeight || 600
CanvasWidth(naturalWidth) == IF naturalWidth = 0 THEN FallbackWidth ELSE naturalWidth
CanvasHeight(naturalHeight) == IF naturalHeight = 0 THEN FallbackHeight ELSE naturalHeight

\* x read from the first entry of box_2d, which is ymin
BoxXFromYmin(block, width) == block.box_2d[1] * width * PadDiv

\* line 142: (block.box_2d[1] / 1000) * width; box_2d[1] of the source is
\* the second entry
BoxX(block, width) == block.box_2d[2] * width * PadDiv

\* line 143: (block.box_2d[0] / 1000) * height
BoxY(block, height) == block.box_2d[1] * height * PadDiv

\* line 144: ((block.box_2d[3] - block.box_2d[1]) / 1000) * width
BoxW(block, width) == (block.box_2d[4] - block.box_2d[2]) * width * PadDiv

\* line 145: ((block.box_2d[2] - block.box_2d[0]) / 1000) * height
BoxH(block, height) == (block.box_2d[3] - block.box_2d[1]) * height * PadDiv

\* lines 149-155: the mask rectangle, the box padded by 5% of its size
MaskGeometry(block, width, height) ==
    LET x == BoxX(block, width)
        y == BoxY(block, height)
        w == BoxW(block, width)
        h == BoxH(block, height)
        paddingX == w \div PadDiv
        paddingY == h \div PadDiv
    IN [left |-> x - paddingX, top |-> y - paddingY,
        width |-> w + (paddingX * 2), height |-> h + (paddingY * 2)]

\* lines 166 and 172-175: the textbox; h * 0.8 and h * 0.1 are exact in
\* these units, h being a multiple of PadDiv
TextboxGeometry(block, width, height) ==
    LET x == BoxX(block, width)
        y == BoxY(block, height)
        w == BoxW(block, width)
        h == BoxH(block, height)
    IN [left |-> x, top |-> y + (h \div 10), width |-> w,
        fontSize |-> (h \div 10) * 8]

\* The box values and the natural image sizes the geometry is checked for
\* (0 is what naturalWidth gives for an image without intrinsic size).
BoxValues == {0, 1, 500, 1000}
NaturalSizes == {0, 1, 801}
Boxes == {<<ymin, xmin, ymax, xmax>> : ymin \in BoxValues, xmin \in BoxValues,
                                       ymax \in BoxValues, xmax \in BoxValues}

\* an image that has loaded and one block to lay out on it
LayoutInputs ==
    [box : Boxes, naturalWidth : NaturalSizes, naturalHeight : NaturalSizes,
     isCleaned : BOOLEAN, laidOut : {FALSE}]

\* lines 124-125 and 141-193 for one block of an image that has loaded
CanvasLayout ==
    /\ geo # NoLayout /\ ~geo.laidOut
    /\ LET block == [ProcessedBlock(RawHi, 0, 0) EXCEPT !.box_2d = geo.box]
           width == CanvasWidth(geo.naturalWidth)
           height == CanvasHeight(geo.naturalHeight)
       IN geo' = [box |-> geo.box, width |-> width, height |-> height,
                  masked |-> MaskWanted(geo.isCleaned),
                  mask |-> MaskGeometry(block, width, height),
                  textbox |-> TextboxGeometry(block, width, height),
                  laidOut |-> TRUE]
    /\ UNCHANGED <<now, aistudio, storeSide, svc, observed, fab>>
    /\ UNCHANGED <<fabric, route, freshIds, deletedIds, ed, dash, app, tasks, cv, loads>>

InitLayout ==
    /\ now = 0
    /\ store = [k \in {} |-> NoProject]
    /\ uuidsUsed = {}
    /\ calls = EmptyBag /\ observed = Nothing /\ created = {} /\ quiet = {}
    /\ svc = NoCall /\ aistudio = "none"
    /\ fabric = TRUE /\ route = "/" /\ freshIds = {} /\ deletedIds = {}
    /\ ed = NoEditor /\ dash = NoDashboard /\ app = NoApp
    /\ tasks = EmptyBag /\ cv = NoCanvas /\ loads = EmptyBag
    /\ geo \in LayoutInputs /\ fab = NoFabric

NextLayout == CanvasLayout

SpecLayout == InitLayout /\ [][NextLayout]_vars

----------------------------------------------------------------------------
(* Claims about the geometry *)

\* box_2d has all values in 0..1000 with ymin <= ymax and xmin <= xmax
WellFormed(box) ==
    /\ \A i \in 1..4 : box[i] >= 0 /\ box[i] <= PerMille
    /\ box[1] <= box[3] /\ box[2] <= box[4]

\* C11: for a block whose box_2d has all values in 0..1000 with
\* ymin <= ymax and xmin <= xmax, on a canvas of width x height the textbox
\* has left = xmin / 1000 * width and width = (xmax - xmin) / 1000 * width,
\* so that it lies horizontally inside [0, width]; and the mask rectangle,
\* the box padded by 5% of its size on each side, contains the box of the
\* block in pixel space.
C11_BoxMapsIntoCanvas ==
    (geo # NoLayout /\ geo.laidOut /\ WellFormed(geo.box)) =>
        \* xmin / 1000 * width pixels are xmin * width * PadDiv units
        LET x == geo.box[2] * geo.width * PadDiv
            y == geo.box[1] * geo.height * PadDiv
            w == (geo.box[4] - geo.box[2]) * geo.width * PadDiv
            h == (geo.box[3] - geo.box[1]) * geo.height * PadDiv
        IN /\ geo.textbox.left = x /\ geo.textbox.width = w
           /\ geo.textbox.left >= 0
           /\ geo.textbox.left + geo.textbox.width <= geo.width * PixelUnits
           /\ geo.mask.width * 10 = w * 11 /\ geo.mask.height * 10 = h * 11
           /\ geo.mask.left <= x /\ geo.mask.left + geo.mask.width >= x + w
           /\ geo.mask.top <= y /\ geo.mask.top + geo.mask.height >= y + h

\* C11 witness: a block on the right half of an 801 pixel wide image, not
\* cleaned: the textbox ends at the right edge and the mask reaches past it.
C11_Witness ==
    /\ geo # NoLayout /\ geo.laidOut /\ geo.masked
    /\ geo.box = <<1, 500, 500, 1000>> /\ geo.width = 801 /\ geo.height = FallbackHeight
    /\ geo.textbox.left + geo.textbox.width = geo.width * PixelUnits
    /\ geo.mask.left < geo.textbox.left
    /\ geo.mask.left + geo.mask.width > geo.width * PixelUnits

----------------------------------------------------------------------------
(* Claims about an upload during an analysis in App *)

\* C12: from an upload on, the blocks and the cleaned image App shows with
\* the uploaded image are empty (null), or were set by an analysis started
\* on that image, also when an analysis of the image before is still in
\* flight at the time of the upload.
C12_UploadResetsAnalysis ==
    app.mounted =>
        /\ app.blocks # <<>> => app.blocksOf = app.imageUrl
        /\ app.processedImageUrl \notin {Null, Undefined} => app.cleanedOf = app.imageUrl

----------------------------------------------------------------------------
(* Claims about a delete with other calls in flight *)

\* id was the key of a project and a deleteProject has removed it: its
\* createProject has put, ids are not handed out twice, and nothing but
\* deleteProject removes a key
Deleted(id) == id \in ReturnedIds /\ id \notin DOMAIN store

\* C13: once a deleteProject(id) has completed, id is never a key of the
\* store again, whatever other calls are in flight, an updateProject on id
\* that has read the record included: no step stores a deleted id.
C13_DeletedStaysDeleted ==
    [][\A id \in Uuids : Deleted(id) => id \notin DOMAIN store']_vars

----------------------------------------------------------------------------
(* Claims about a create that fails *)

CreateFailedAlert == "Failed to create project"

\* C14: when createProject rejects inside handleCreateProject, that is when
\* a create that was about to put ends without having stored its project,
\* the user is alerted with 'Failed to create project' and the router does
\* not go to a project page.
C14_CreateFailureAlerts ==
    [][\A t \in Running :
        (t.kind = "create" /\ t.pc = "put" /\ tasks' = Without(t)) =>
            /\ dash'.mounted /\ CreateFailedAlert \in dash'.alerts
            /\ route' = route]_vars

----------------------------------------------------------------------------
(* The editor with a store whose writes can fail *)

\* storageService updateProject line 218 under saveChanges, part_000 lines
\* 54-58: the put fails (the transaction aborts, the quota is exceeded),
\* updateProject rejects, saveChanges logs it and goes on to its finally
EdSavePutFails(t) ==
    /\ ~Resuming
    /\ t.kind \in {"reDetectText", "reCleanBackground"} /\ t.pc = "put"
    /\ tasks' = Replace(t, [t EXCEPT !.pc = "saved"])
    /\ UNCHANGED <<now, store, uuidsUsed, aistudio, benchSide>>
    /\ UNCHANGED <<fabric, route, freshIds, deletedIds, ed, dash, app, cv, loads>>

\* The editor from its mount on, for as long as the user stays on the page.
NextSaving ==
    \/ EdReDetectText
    \/ EdReCleanBackground
    \/ \E t \in Running : EdLoadRead(t)
    \/ \E t \in Running : EdLoadDeliver(t)
    \/ \E t \in Running : TaskAnalyzeResponse(t)
    \/ \E t \in Running : TaskHasKey(t)
    \/ \E t \in Running : TaskOpenKey(t)
    \/ \E t \in Running : TaskRemoveResponse(t)
    \/ \E t \in Running : EdReDetectResume(t)
    \/ \E t \in Running : EdReCleanResume(t)
    \/ \E t \in Running : EdSaveRead(t)
    \/ \E t \in Running : EdSavePut(t)
    \/ \E t \in Running : EdSavePutFails(t)
    \/ \E t \in Running : EdSaved(t)
    \/ \E l \in BagToSet(loads) : CanvasImageLoaded(l)
    \/ \E l \in BagToSet(loads) : CanvasImageError(l)

SpecSaving == InitEditor /\ [][NextSaving]_vars

----------------------------------------------------------------------------
(* Claims about the Saved indicator *)

\* no image: null and undefined are the same to the editor (line 104)
SameImage(a, b) == IF Truthy(a) THEN a = b ELSE ~Truthy(b)

\* C15: when a reDetectText or a reCleanBackground ends without an error
\* set, and the footer of the editor shows 'Saved' (isSaving false), the
\* project stored under the id of the editor has the blocks and the cleaned
\* image the editor shows.
C15_SavedMeansStored ==
    [][\A t \in Running :
        (/\ t.kind \in {"reDetectText", "reCleanBackground"}
         /\ t.pc = "saved" /\ ~t.orphan /\ tasks' = Without(t)
         /\ ed'.mounted /\ ed'.error = Null /\ ~ed'.isSaving) =>
            /\ ed'.id \in DOMAIN store'
            /\ store'[ed'.id].blocks = ed'.blocks
            /\ SameImage(store'[ed'.id].processedImage, ed'.processedImageUrl)]_vars

----------------------------------------------------------------------------
(* Claims about content loads that overlap *)

\* the loads started by the content effect of the mounted EditorCanvas
PendingLoads == {l \in BagToSet(loads) : ~l.orphan}

\* C16: in the EditorCanvas that App renders, while a load of the content
\* effect is pending loadingCanvas is true (Download is disabled), and once
\* no load is pending the objects on the canvas are those built from the
\* blocks and the isCleaned the canvas was last rendered with, also when
\* the blocks changed while an earlier load was pending.
C16_LatestLoadWins ==
    (cv.mounted /\ cv.ref # Null) =>
        /\ PendingLoads # {} => cv.loadingCanvas
        /\ (PendingLoads = {} /\ cv.built # NoBuilt) =>
            /\ cv.built = [blocks |-> app.blocks, isCleaned |-> cv.isCleaned]
            /\ cv.objects = BlockObjects(app.blocks, cv.isCleaned)

----------------------------------------------------------------------------
(* The editor whose route param changes: two stored projects, and the      *)
(* router going from /project/<a> to /project/<b> (a traversal of the      *)
(* session history, or a navigate) while ProjectEditor stays mounted.      *)

OtherId == UuidOrder[2]

\* The two projects earlier visits left: one as created, one with a block
\* and a cleaned image.
StoredPair ==
    LET a == NewProject(OpenedId, "photo", "data:imgA", <<>>, 0)
        b == UpdatedProject(NewProject(OtherId, "photo", "data:imgA", <<>>, 0),
                            [blocks |-> <<ProcessedBlock(RawHi, 0, 0)>>,
                             processedImage |-> "data:image/png;base64,X"], 0)
    IN DbPut(DbPut([k \in {} |-> NoProject], a), b)

\* LoadingOverlay.tsx lines 297-306 and part_000 lines 11 and 25-44: the
\* location changes to the page of another stored project; the element of
\* the route is the same, so the instance stays and its effect runs again
EdRouteChange ==
    /\ ~Resuming
    /\ ed.mounted
    /\ \E id \in DOMAIN store \ {ed.id} : ShowProject(id, tasks)
    /\ UNCHANGED <<now, store, uuidsUsed, aistudio, benchSide>>
    /\ UNCHANGED <<fabric, freshIds, deletedIds, app>>

InitRoute ==
    /\ now = 0
    /\ store = StoredPair
    /\ uuidsUsed = {OpenedId, OtherId}
    /\ calls = EmptyBag /\ observed = Nothing /\ created = {} /\ quiet = {}
    /\ svc = NoCall
    /\ aistudio = "none"
    /\ fabric \in BOOLEAN
    /\ route = ProjectPath(OpenedId) /\ freshIds = {} /\ deletedIds = {}
    /\ dash = NoDashboard /\ app = NoApp
    /\ ed = NewEditor(OpenedId)
    /\ tasks = SetToBag({NewTask("load", "getProject", OpenedId)})
    /\ cv = MountedCanvas(EditorProps(NewEditor(OpenedId))) /\ loads = EmptyBag
    /\ geo = NoLayout /\ fab = NoFabric

NextRoute ==
    \/ EdRouteChange
    \/ \E t \in Running : EdLoadRead(t)
    \/ \E t \in Running : EdLoadDeliver(t)
    \/ \E l \in BagToSet(loads) : CanvasImageLoaded(l)
    \/ \E l \in BagToSet(loads) : CanvasImageError(l)

SpecRoute == InitRoute /\ [][NextRoute]_vars

----------------------------------------------------------------------------
(* Claims about a route id that changes during a load *)

\* C17: once no project load of the editor is in flight, the name, the
\* source image, the cleaned image and the blocks the editor holds are
\* those of the project stored under the current route id, also when the
\* route id changed while a load was in flight.
C17_ShowsCurrentRouteProject ==
    (/\ ed.mounted /\ ed.id \in DOMAIN store
     /\ \A t \in Running : t.kind # "load" \/ t.orphan) =>
        /\ ed.projectName = store[ed.id].name
        /\ ed.imageUrl = store[ed.id].originalImage
        /\ SameImage(store[ed.id].processedImage, ed.processedImageUrl)
        /\ ed.blocks = store[ed.id].blocks

----------------------------------------------------------------------------
(* EditorCanvas and the fabric canvas it owns (LoadingOverlay.tsx lines    *)
(* 37-229).  `fab` holds the instances of EditorCanvas created so far,     *)
(* each with its fabricCanvasRef (0 for null, else the number of a fabric  *)
(* canvas), the fabric canvases created, and the deferred callbacks that   *)
(* have not run yet: image onload, setTimeout(fitCanvas, 50), the          *)
(* requestAnimationFrame(fitCanvas) of the resize handler and the          *)
(* setTimeout of handleDownload.  A callback reads the ref of the instance *)
(* that created it, when it runs.                                          *)

MaxInstances == 2   \* EditorCanvas instances created
MaxDeferred == 4    \* deferred callbacks pending at once

NoInstances == [insts |-> <<>>, canvases |-> <<>>, deferred |-> EmptyBag]

\* history: `late` says a method of the canvas was called after dispose,
\* `after` which functions the deferred callbacks of an instance ran after
\* its unmount
NewFabricCanvas == [disposed |-> 0, late |-> FALSE]

Current(f) == Len(f.insts)
IsMounted(f) == f.insts # <<>> /\ f.insts[Current(f)].mounted
Defer(f, kind, i) ==
    [f EXCEPT !.deferred = @ (+) SetToBag({[kind |-> kind, inst |-> i]})]

\* a method of fabric canvas c is called
Use(f, c) == [f EXCEPT !.canvases[c].late = @ \/ f.canvases[c].disposed > 0]

\* a cleanup that leaves the ref as it is
RefKeptAfterCleanup(ref) == ref

\* line 99: fabricCanvasRef.current = null
RefAfterCleanup(ref) == 0

\* lines 89-101: the cleanup of the init effect, and React clearing
\* containerRef; the callbacks that are pending stay pending
Unmounted(f) ==
    LET i == Current(f)
        ref == f.insts[i].ref
        g == IF ref # 0
             THEN [Use(f, ref) EXCEPT !.canvases[ref].disposed = @ + 1,
                                      !.insts[i].ref = RefAfterCleanup(ref)]
             ELSE f
    IN [g EXCEPT !.insts[i].mounted = FALSE, !.insts[i].listening = FALSE]

\* lines 71-88 and 105-114: a new instance, its init effect (a canvas when
\* the <canvas> element is rendered, which needs imageUrl, and fabric is
\* loaded) and its first content effect
Mounted(f, hasImage) ==
    LET made == hasImage /\ fabric
        i == Len(f.insts) + 1
        c == Len(f.canvases) + 1
        inst == [mounted |-> TRUE, ref |-> IF made THEN c ELSE 0,
                 listening |-> made, hasImage |-> hasImage, after |-> {}]
        g == [f EXCEPT !.insts = Append(@, inst),
                       !.canvases = IF made THEN Append(@, NewFabricCanvas) ELSE @]
    IN IF made THEN Defer(g, "onload", i) ELSE g

CanvasStep(f) ==
    /\ fab' = f
    /\ BagCardinality(f.deferred) <= MaxDeferred
    /\ UNCHANGED <<now, aistudio, storeSide, svc, observed, geo>>
    /\ UNCHANGED <<fabric, route, freshIds, deletedIds, ed, dash, app, tasks, cv, loads>>

\* the page renders EditorCanvas for the first time, or again after it had
\* none
CvMount ==
    /\ ~IsMounted(fab) /\ Len(fab.insts) < MaxInstances
    /\ \E hasImage \in BOOLEAN : CanvasStep(Mounted(fab, hasImage))

\* the page goes away
CvUnmount ==
    /\ IsMounted(fab)
    /\ CanvasStep(Unmounted(fab))

\* key={activeImageUrl} changes: the instance is replaced in one commit
CvRemount ==
    /\ IsMounted(fab) /\ Len(fab.insts) < MaxInstances
    /\ \E hasImage \in BOOLEAN : CanvasStep(Mounted(Unmounted(fab), hasImage))

\* lines 105-114: blocks or isCleaned changed, the content effect runs again
CvContentEffect ==
    /\ IsMounted(fab) /\ fab.insts[Current(fab)].ref # 0
    /\ CanvasStep(Defer(fab, "onload", Current(fab)))

\* lines 84-86: a resize of the window while the listener is attached
CvResize ==
    /\ IsMounted(fab) /\ fab.insts[Current(fab)].listening
    /\ CanvasStep(Defer(fab, "frame", Current(fab)))

\* lines 210-216: a click on Download
CvDownload ==
    /\ IsMounted(fab) /\ fab.insts[Current(fab)].hasImage
    /\ LET i == Current(fab)
           ref == fab.insts[i].ref
       IN /\ ref # 0
          /\ CanvasStep(Defer(Use(fab, ref), "export", i))

\* the function a deferred callback runs: the timer of onload and the
\* animation frame of the resize handler both run fitCanvas
Runs(p) == IF p.kind \in {"fit", "frame"} THEN "fitCanvas" ELSE p.kind

\* what is left once a callback has been taken off the queue
Taken(p) ==
    LET g == [fab EXCEPT !.deferred = @ (-) SetToBag({p})]
    IN IF fab.insts[p.inst].mounted THEN g
       ELSE [g EXCEPT !.insts[p.inst].after = @ \cup {Runs(p)}]

\* lines 116-201: imgElement.onload
CvOnLoad(p) ==
    /\ p.kind = "onload"
    /\ LET ref == fab.insts[p.inst].ref
       IN CanvasStep(IF ref = 0 THEN Taken(p)
                     ELSE Defer(Use(Taken(p), ref), "fit", p.inst))

\* lines 203-206: imgElement.onerror
CvOnError(p) ==
    /\ p.kind = "onload"
    /\ CanvasStep(Taken(p))

\* lines 46-68: fitCanvas, from the timer of onload or the animation frame
\* of the resize handler; containerRef is null once the instance is gone
CvFitCanvas(p) ==
    /\ p.kind \in {"fit", "frame"}
    /\ LET ref == fab.insts[p.inst].ref
       IN CanvasStep(IF ~fab.insts[p.inst].mounted \/ ref = 0 THEN Taken(p)
                     ELSE Use(Taken(p), ref))

\* lines 216-228: the delayed export of handleDownload
CvExport(p) ==
    /\ p.kind = "export"
    /\ LET ref == fab.insts[p.inst].ref
       IN CanvasStep(IF ref = 0 THEN Taken(p) ELSE Use(Taken(p), ref))

InitCanvas ==
    /\ now = 0
    /\ store = [k \in {} |-> NoProject]
    /\ uuidsUsed = {}
    /\ calls = EmptyBag /\ observed = Nothing /\ created = {} /\ quiet = {}
    /\ svc = NoCall /\ aistudio = "none"
    /\ fabric \in BOOLEAN
    /\ route = "/" /\ freshIds = {} /\ deletedIds = {}
    /\ ed = NoEditor /\ dash = NoDashboard /\ app = NoApp
    /\ tasks = EmptyBag /\ cv = NoCanvas /\ loads = EmptyBag
    /\ geo = NoLayout /\ fab = NoInstances

NextCanvas ==
    \/ CvMount
    \/ CvUnmount
    \/ CvRemount
    \/ CvContentEffect
    \/ CvResize
    \/ CvDownload
    \/ \E p \in BagToSet(fab.deferred) : CvOnLoad(p)
    \/ \E p \in BagToSet(fab.deferred) : CvOnError(p)
    \/ \E p \in BagToSet(fab.deferred) : CvFitCanvas(p)
    \/ \E p \in BagToSet(fab.deferred) : CvExport(p)

SpecCanvas == InitCanvas /\ [][NextCanvas]_vars

----------------------------------------------------------------------------
(* Claims about the canvas after its unmount *)

\* C18: no method of a fabric canvas is called after the canvas was
\* disposed by the cleanup of the instance that owns it: the ref of an
\* unmounted instance is null, which is what its deferred callbacks (image
\* onload, the delayed fitCanvas, the animation frame of the resize
\* handler, the delayed export of handleDownload) read, so they do
\* nothing; and dispose is called at most once per canvas.
C18_NothingAfterDispose ==
    /\ \A c \in DOMAIN fab.canvases :
        ~fab.canvases[c].late /\ fab.canvases[c].disposed <= 1
    /\ \A i \in DOMAIN fab.insts :
        /\ ~fab.insts[i].mounted => fab.insts[i].ref = 0
        /\ fab.insts[i].ref # 0 => fab.canvases[fab.insts[i].ref].disposed = 0

\* C18 witness: an instance whose canvas was disposed on unmount has had
\* an onload, a fitCanvas and a delayed export run since, and the canvas
\* was left alone.
C18_Witness ==
    \E i \in DOMAIN fab.insts :
        /\ ~fab.insts[i].mounted
        /\ fab.insts[i].after = {"onload", "fitCanvas", "export"}
        /\ fab.insts[i].ref = 0
        /\ \E c \in DOMAIN fab.canvases :
            fab.canvases[c].disposed = 1 /\ ~fab.canvases[c].late

----------------------------------------------------------------------------
(* The pages under fairness: a continuation that is ready runs (the        *)
(* microtask queue is drained) and a request to the object store settles.  *)
(* Nothing is assumed of the AI service: a request to it may never         *)
(* settle.  EditorCanvas neither reads nor writes isAnalyzing; the pages   *)
(* run here without the fabric script, so that EditorCanvas starts no      *)
(* image load and the bound on pending loads holds no continuation back.   *)

InitLive == Init /\ ~fabric

NextLive ==
    \/ EdReDetectText
    \/ EdReCleanBackground
    \/ EdNavigateHome
    \/ AppHandleFileChange
    \/ AppStartAnalysis
    \/ \E t \in Running : DashLoadRead(t)
    \/ \E t \in Running : DashLoadDeliver(t)
    \/ \E t \in Running : EdLoadRead(t)
    \/ \E t \in Running : EdLoadDeliver(t)
    \/ \E t \in Running : AppReaderLoadEnd(t)
    \/ \E t \in Running : TaskAnalyzeResponse(t)
    \/ \E t \in Running : TaskHasKey(t)
    \/ \E t \in Running : TaskOpenKey(t)
    \/ \E t \in Running : TaskRemoveResponse(t)
    \/ \E t \in Running : AppAnalyzeResume(t)
    \/ \E t \in Running : AppRemoveResume(t)
    \/ \E t \in Running : EdReDetectResume(t)
    \/ \E t \in Running : EdReCleanResume(t)
    \/ \E t \in Running : EdSaveRead(t)
    \/ \E t \in Running : EdSavePut(t)
    \/ \E t \in Running : EdSaved(t)

Continues ==
    \/ \E t \in Running : AppAnalyzeResume(t)
    \/ \E t \in Running : AppRemoveResume(t)
    \/ \E t \in Running : EdReDetectResume(t)
    \/ \E t \in Running : EdReCleanResume(t)

StoreSettles ==
    \/ \E t \in Running : EdSaveRead(t)
    \/ \E t \in Running : EdSavePut(t)
    \/ \E t \in Running : EdSaved(t)

SpecLive ==
    /\ InitLive /\ [][NextLive]_vars
    /\ WF_vars(Continues) /\ WF_vars(StoreSettles)

----------------------------------------------------------------------------
(* Claims about the loading overlay *)

Operations == {"startAnalysis", "reDetectText", "reCleanBackground"}

\* the AI calls of a run have all returned: the call it awaits has settled
\* and the run will make no other (startAnalysis calls the removal after a
\* detection that resolved)
AllReturned(t) ==
    /\ t.kind \in Operations /\ ~t.orphan /\ Settled(t)
    /\ t.kind = "startAnalysis" => (t.ai.fn = Removal \/ t.ai.ret.kind = "rejected")

\* the overlay of the page that is shown is down
OverlayDown ==
    IF app.mounted THEN ~app.isAnalyzing
    ELSE ~ed.mounted \/ ~ed.isAnalyzing

\* C19: when the AI calls of a startAnalysis, a reDetectText or a
\* reCleanBackground have returned, resolved or rejected, isAnalyzing of
\* the page is eventually false, so that the loading overlay does not stay.
C19_OverlayComesDown ==
    (\E t \in Running : AllReturned(t)) ~> OverlayDown

\* C19 witness: a reDetectText of the editor has resolved, has saved and
\* has ended: the overlay is down and the detected blocks are shown.
C19_Witness ==
    /\ ed.mounted /\ ~ed.isAnalyzing /\ ~ed.isSaving /\ ed.error = Null
    /\ ed.statusMessage = "Re-detecting text regions..."
    /\ Len(ed.blocks) = 2
    /\ tasks = EmptyBag

====
